---- MODULE Spec2Model ----
(***************************************************************************)
(* Launch orchestrator (instance.Provider), instance-type catalogue        *)
(* (instancetype.Provider) and their collaborators, as a state machine.    *)
(*                                                                         *)
(* Prices are integers (price units); the 0.72 factor of filterUnwantedSpot *)
(* is applied as 100 * p <= 72 * q.  Instance-type names are compared       *)
(* through NameRank, which lists the catalogue in lexicographic order.      *)
(***************************************************************************)
EXTENDS Integers, Sequences, FiniteSets, TLC

VARIABLES
    subnetZones,    \* zones of the subnets the node class resolves to
    unavailable,    \* unavailable-offerings cache: the unexpired <<capacityType, instanceType, zone>> keys
    SeqNum,         \* UnavailableOfferings.SeqNum
    cache,          \* instancetype.Provider.cache: List results by key
    ltCache,        \* launch-template provider's cache: names of cached templates
    listed,         \* the instance types the caller of Create holds (last List result)
    listedMarks,    \* history: the unavailable keys at the time `listed` was returned
    pc,             \* position of the Create call in progress
    machine,        \* requirements of the machine of the call
    instanceTypes,  \* Create's instanceTypes after filter, order and truncation
    launches,       \* launchInstance calls made by the call so far
    request,        \* CreateFleet input of the last launchInstance call
    fleetOutput,    \* outcome of the last CreateFleet call
    id,             \* Create's id
    err,            \* Create's err
    getAttempts,    \* Get calls made by retry.Do so far
    described,      \* outcome of the last DescribeInstances call
    instance,       \* the instance Create returns
    probe,          \* inputs and outputs of the pure functions under check
    iam,            \* IAM: the instance profile of each node class, by owner UID
    profileCache,   \* instanceprofile.DefaultProvider.cache: the unexpired UIDs
    failedSince,    \* history: the UIDs whose last completed Create returned an error
    ipCall,         \* history: the last call of the instance-profile provider
    nodeClass,      \* the EC2NodeClass object as the API server stores it
    reconciled,     \* history: the last Reconcile of the node-class status controller
    reconciles,     \* history: the number of Reconcile calls made
    mu,             \* instancetype.Provider.mu: "free" or the caller holding it
    rawCache,       \* instancetype.Provider.cache: the unexpired raw entries (instance
                    \* types, offerings, zones), each {} or a one-element set
    cm,             \* instancetype.Provider.cm: the value last seen under each key
    instanceTypesSeqNum,          \* instancetype.Provider.instanceTypesSeqNum
    instanceTypeOfferingsSeqNum,  \* instancetype.Provider.instanceTypeOfferingsSeqNum
    ec2,            \* what EC2 describes now: instance types and their offerings
    callers,        \* position and locals of each concurrent caller of List
    catalogCall,    \* history: what the last step of the catalogue did
    fetched,        \* history: the data of the last successful fetch of each kind
    fills,          \* history: successful fetches of each kind since its entry was last absent
    changes,        \* history: the number of changes of the EC2 data
    listCache,      \* instancetype.Provider.cache: the List results of the catalogue by key
    seqData,        \* history: the data whose fetch set each sequence number
    apiserver       \* the EC2NodeClass objects the API server stores, by name: {} or {spec}

vars == <<subnetZones, unavailable, SeqNum, cache, ltCache, listed, listedMarks,
          pc, machine, instanceTypes, launches, request, fleetOutput, id, err,
          getAttempts, described, instance, probe,
          iam, profileCache, failedSince, ipCall, nodeClass, reconciled, reconciles,
          mu, rawCache, cm, instanceTypesSeqNum, instanceTypeOfferingsSeqNum, ec2,
          callers, catalogCall, fetched, fills, changes, listCache, seqData, apiserver>>

nodeClassVars == <<iam, profileCache, failedSince, ipCall, nodeClass, reconciled, reconciles,
                   apiserver>>

catalogVars == <<mu, rawCache, cm, instanceTypesSeqNum, instanceTypeOfferingsSeqNum, ec2,
                 callers, catalogCall, fetched, fills, changes, listCache, seqData>>

-----------------------------------------------------------------------------
(* Bounds of the model *)

\* Marks the unavailable-offerings cache takes in one behaviour (caps SeqNum).
MaxSeqNum == 1
\* Per-override errors in one CreateFleet response.
MaxFleetErrors == 2
\* Keys in the unavailable-offerings cache when the pure steps are applied.
MaxMarked == 2
\* MaxInstanceTypes of the source is 60; the catalogue has four types, so the
\* truncation is modelled at this scaled value.
MaxInstanceTypes == 2
\* Reconcile calls of the node-class status controller
MaxReconciles == 2
\* Changes of what EC2 describes (instance types, offerings) in one behaviour
MaxCatalogChanges == 2
\* The largest value of the reserved-ENIs option the resources are computed for
MaxReservedENIs == 3

(* Program constants *)

\* math.MaxFloat64: larger than every price of the catalogue.
MaxFloat64 == 1000000
\* retry.Attempts(6)
RetryAttempts == 6

-----------------------------------------------------------------------------
(* Values *)

CapacityTypeSpot == "spot"
CapacityTypeOnDemand == "on-demand"
CapacityTypes == {CapacityTypeSpot, CapacityTypeOnDemand}
Zones == {"zone-a", "zone-b", "zone-c"}
InstanceTypeNames == {"c5.large", "c6g.large", "m5.large", "p3.2xlarge"}

\* Lexicographic order of the names: "c5.large" < "c6g.large" < "m5.large" < "p3.2xlarge".
NameRank(name) ==
    CASE name = "c5.large" -> 1
      [] name = "c6g.large" -> 2
      [] name = "m5.large" -> 3
      [] name = "p3.2xlarge" -> 4

\* ec2.DescribeInstanceTypes, as GetInstanceTypes returns it.
InstanceTypeInfos ==
    << [InstanceType |-> "c5.large", SupportedUsageClasses |-> {"spot", "on-demand"},
        Size |-> "large",
        Accelerators |-> [NvidiaGPU |-> 0, AMDGPU |-> 0, Neuron |-> 0, Gaudi |-> 0], Arch |-> "amd64",
        DefaultVCpus |-> 2, MaximumNetworkInterfaces |-> 3, Ipv4AddressesPerInterface |-> 10],
       [InstanceType |-> "c6g.large", SupportedUsageClasses |-> {"spot", "on-demand"},
        Size |-> "large",
        Accelerators |-> [NvidiaGPU |-> 0, AMDGPU |-> 0, Neuron |-> 0, Gaudi |-> 0], Arch |-> "arm64",
        DefaultVCpus |-> 2, MaximumNetworkInterfaces |-> 3, Ipv4AddressesPerInterface |-> 10],
       [InstanceType |-> "m5.large", SupportedUsageClasses |-> {"spot", "on-demand"},
        Size |-> "large",
        Accelerators |-> [NvidiaGPU |-> 0, AMDGPU |-> 0, Neuron |-> 0, Gaudi |-> 0], Arch |-> "amd64",
        DefaultVCpus |-> 2, MaximumNetworkInterfaces |-> 3, Ipv4AddressesPerInterface |-> 10],
       [InstanceType |-> "p3.2xlarge", SupportedUsageClasses |-> {"spot", "on-demand", "capacity-block"},
        Size |-> "2xlarge",
        Accelerators |-> [NvidiaGPU |-> 1, AMDGPU |-> 0, Neuron |-> 0, Gaudi |-> 0], Arch |-> "amd64",
        DefaultVCpus |-> 8, MaximumNetworkInterfaces |-> 4, Ipv4AddressesPerInterface |-> 15] >>

\* ec2.DescribeInstanceTypeOfferings, as getInstanceTypeOfferings returns it.
InstanceTypeOfferings ==
    [name \in InstanceTypeNames |->
        CASE name = "c5.large" -> {"zone-a", "zone-b", "zone-c"}
          [] name = "c6g.large" -> {"zone-a"}
          [] name = "m5.large" -> {"zone-b", "zone-c"}
          [] name = "p3.2xlarge" -> {"zone-a", "zone-b"}]

\* Orders in which a Go range may visit the usage classes of a type.
UsageClassOrders ==
    { <<"spot", "on-demand", "capacity-block">>, <<"capacity-block", "on-demand", "spot">> }

\* The order List ranges in; createOfferings is checked on its own under both orders.
ListOrders == { <<"spot", "on-demand", "capacity-block">> }

\* The zones in the order the range over the zone set visits them.
ZoneOrder == <<"zone-a", "zone-b", "zone-c">>

OnDemandPriceTable ==
    [name \in InstanceTypeNames |->
        CASE name = "c5.large" -> 100
          [] name = "c6g.large" -> 100
          [] name = "m5.large" -> 120
          [] name = "p3.2xlarge" -> 300]

SpotPriceTable ==
    (<<"c5.large", "zone-a">> :> 72) @@ (<<"c5.large", "zone-b">> :> 73) @@
    (<<"c6g.large", "zone-a">> :> 100) @@ (<<"c6g.large", "zone-b">> :> 90) @@
    (<<"p3.2xlarge", "zone-a">> :> 100) @@ (<<"c5.large", "zone-c">> :> 60) @@
    (<<"m5.large", "zone-a">> :> 85) @@ (<<"m5.large", "zone-b">> :> 80) @@
    (<<"m5.large", "zone-c">> :> 80)

\* pricing.Provider.OnDemandPrice
OnDemandPrice(instanceType) ==
    [price |-> OnDemandPriceTable[instanceType], ok |-> TRUE]

\* pricing.Provider.SpotPrice: no price is known for p3.2xlarge in zone-b.
SpotPrice(instanceType, zone) ==
    IF <<instanceType, zone>> \in DOMAIN SpotPriceTable
    THEN [price |-> SpotPriceTable[<<instanceType, zone>>], ok |-> TRUE]
    ELSE [price |-> 0, ok |-> FALSE]

\* Requirements of a machine: the values its capacity-type and zone requirements admit.
Machines ==
    [capacityTypes : {{CapacityTypeSpot}, {CapacityTypeOnDemand}, CapacityTypes},
     zones : {{"zone-b"}, Zones}]

-----------------------------------------------------------------------------
(* cloudprovider.Offerings *)

\* Offerings.Available
Available(ofs) == SelectSeq(ofs, LAMBDA o : o.Available)

\* Offerings.Requirements
Requirements(ofs, reqs) ==
    SelectSeq(ofs, LAMBDA o : o.Zone \in reqs.zones /\ o.CapacityType \in reqs.capacityTypes)

\* Offerings.Cheapest: lo.MinBy keeps the first of the offerings of least price.
Cheapest(ofs) ==
    LET i == CHOOSE k \in 1..Len(ofs) :
                 /\ \A j \in 1..Len(ofs) : ofs[k].Price <= ofs[j].Price
                 /\ \A j \in 1..(k - 1) : ofs[j].Price > ofs[k].Price
    IN ofs[i]

Range(s) == {s[i] : i \in 1..Len(s)}

-----------------------------------------------------------------------------
(* Unavailable-offerings cache *)

\* UnavailableOfferings.key
UnavailableKey(instanceType, zone, capacityType) == <<capacityType, instanceType, zone>>

\* UnavailableOfferings.IsUnavailable
IsUnavailable(instanceType, zone, capacityType) ==
    UnavailableKey(instanceType, zone, capacityType) \in unavailable

-----------------------------------------------------------------------------
(* Instance-type catalogue *)

\* createOfferings with the price lookup's ok left out of the conjunction
OfferingAvailableAnyPrice(isUnavailable, ok, inInstanceTypeZones, inSubnetZones) ==
    ~isUnavailable /\ inInstanceTypeZones /\ inSubnetZones

\* createOfferings: available := !isUnavailable && ok && instanceTypeZones.Has(zone) && subnetZones.Has(zone)
OfferingAvailable(isUnavailable, ok, inInstanceTypeZones, inSubnetZones) ==
    ~isUnavailable /\ ok /\ inInstanceTypeZones /\ inSubnetZones

\* createOfferings: the price lookup of the switch on the capacity type
OfferingPrice(instanceType, zone, capacityType) ==
    IF capacityType = "spot" THEN SpotPrice(instanceType, zone) ELSE OnDemandPrice(instanceType)

\* createOfferings: the offering appended for one zone and capacity type
NewOffering(info, zone, capacityType, instanceTypeZones, subnetZoneSet) ==
    LET p == OfferingPrice(info.InstanceType, zone, capacityType)
    IN [Zone |-> zone,
        CapacityType |-> capacityType,
        Price |-> p.price,
        Available |-> OfferingAvailable(IsUnavailable(info.InstanceType, zone, capacityType),
                                        p.ok, zone \in instanceTypeZones, zone \in subnetZoneSet)]

\* createOfferings; order is the order in which the range visits the usage classes.
createOfferings(info, instanceTypeZones, zones, subnetZoneSet, order) ==
    LET n == Len(order)
        visits == [k \in 1..(Len(ZoneOrder) * n) |->
                      [zone |-> ZoneOrder[((k - 1) \div n) + 1],
                       capacityType |-> order[((k - 1) % n) + 1]]]
        kept == SelectSeq(visits, LAMBDA v :
                      /\ v.zone \in zones
                      /\ v.capacityType \in info.SupportedUsageClasses
                      /\ v.capacityType \in {"spot", "on-demand"})
    IN [k \in 1..Len(kept) |->
           NewOffering(info, kept[k].zone, kept[k].capacityType, instanceTypeZones, subnetZoneSet)]

\* getZones
getZones(instanceTypeOfferings) ==
    UNION {instanceTypeOfferings[name] : name \in DOMAIN instanceTypeOfferings}

\* NewInstanceType: the fields the launch path reads.
NewInstanceType(info, offerings) ==
    [Name |-> info.InstanceType,
     Size |-> info.Size,
     Accelerators |-> info.Accelerators,
     Arch |-> info.Arch,
     Offerings |-> offerings]

\* List: the key of the fully initialised instance types (the hashes of the kubelet
\* configuration, block device mappings and AMI family and the two catalogue sequence
\* numbers do not change in this model).
ListKey == <<SeqNum, subnetZones>>

\* List: the result computed on a cache miss
ListResult(order) ==
    [i \in 1..Len(InstanceTypeInfos) |->
        NewInstanceType(InstanceTypeInfos[i],
            createOfferings(InstanceTypeInfos[i],
                            InstanceTypeOfferings[InstanceTypeInfos[i].InstanceType],
                            getZones(InstanceTypeOfferings), subnetZones, order))]

-----------------------------------------------------------------------------
(* Instance-type resources *)

\* The capability flags of an AMI family that the pods capacity depends on
FeatureFlags == [SupportsENILimitedPodDensity : BOOLEAN, PodsPerCoreEnabled : BOOLEAN]

\* lo.FromPtr of a *int32, which is {} for nil and {n} when it points to n:
\* the value pointed to, 0 for nil
FromPtr(ptr) == IF ptr = {} THEN 0 ELSE CHOOSE n \in ptr : TRUE

\* cpu
cpu(info) == info.DefaultVCpus

\* ENILimitedPods; reservedENIs is options.FromContext(ctx).ReservedENIs
ENILimitedPods(info, reservedENIs) ==
    LET networkInterfaces == info.MaximumNetworkInterfaces
        usableNetworkInterfaces == IF networkInterfaces - reservedENIs >= 0
                                   THEN networkInterfaces - reservedENIs ELSE 0
    IN IF usableNetworkInterfaces = 0
       THEN 0
       ELSE usableNetworkInterfaces * (info.Ipv4AddressesPerInterface - 1) + 2

\* pods
pods(info, flags, maxPods, podsPerCore, reservedENIs) ==
    LET count == CASE maxPods # {} -> FromPtr(maxPods)
                   [] maxPods = {} /\ flags.SupportsENILimitedPodDensity ->
                          ENILimitedPods(info, reservedENIs)
                   [] OTHER -> 110
        perCore == FromPtr(podsPerCore) * info.DefaultVCpus
    IN IF FromPtr(podsPerCore) > 0 /\ flags.PodsPerCoreEnabled
       THEN (IF perCore <= count THEN perCore ELSE count)
       ELSE count

\* computeCapacity: the cpu and pods resources
computeCapacity(info, flags, maxPods, podsPerCore, reservedENIs) ==
    [cpu |-> cpu(info), pods |-> pods(info, flags, maxPods, podsPerCore, reservedENIs)]

\* computeRequirements: the labels with values that every instance type gets
computeRequirements(info, offerings) ==
    [label \in {"node.kubernetes.io/instance-type", "kubernetes.io/arch",
                "topology.kubernetes.io/zone", "karpenter.sh/capacity-type",
                "karpenter.k8s.aws/instance-cpu"} |->
        CASE label = "node.kubernetes.io/instance-type" -> {info.InstanceType}
          [] label = "kubernetes.io/arch" -> {info.Arch}
          [] label = "topology.kubernetes.io/zone" ->
                 {o.Zone : o \in Range(Available(offerings))}
          [] label = "karpenter.sh/capacity-type" ->
                 {o.CapacityType : o \in Range(Available(offerings))}
          [] label = "karpenter.k8s.aws/instance-cpu" -> {info.DefaultVCpus}]

\* NewInstanceType: the requirements and the capacity of the instance type
instanceTypeResources(info, offerings, flags, maxPods, podsPerCore, reservedENIs) ==
    [Name |-> info.InstanceType,
     Requirements |-> computeRequirements(info, offerings),
     Capacity |-> computeCapacity(info, flags, maxPods, podsPerCore, reservedENIs)]

\* amifamily.DefaultEBS.VolumeSize: 20Gi
DefaultEBS == [VolumeSize |-> {[n |-> 20, unit |-> "Gi"]}]

\* The AMI families as ephemeralStorage sees them: whether the family is
\* Custom, its EphemeralBlockDevice (a *string, {} for nil) and its
\* DefaultBlockDeviceMappings
AMIFamilies ==
    { [Name |-> "AL2", Custom |-> FALSE, EphemeralBlockDevice |-> {"/dev/xvda"},
       DefaultBlockDeviceMappings |->
           << [DeviceName |-> "/dev/xvda", RootVolume |-> FALSE,
               VolumeSize |-> {[n |-> 20, unit |-> "Gi"]}] >>],
      [Name |-> "Bottlerocket", Custom |-> FALSE, EphemeralBlockDevice |-> {"/dev/xvdb"},
       DefaultBlockDeviceMappings |->
           << [DeviceName |-> "/dev/xvda", RootVolume |-> FALSE,
               VolumeSize |-> {[n |-> 4, unit |-> "Gi"]}],
              [DeviceName |-> "/dev/xvdb", RootVolume |-> FALSE,
               VolumeSize |-> {[n |-> 20, unit |-> "Gi"]}] >>],
      [Name |-> "Windows2022", Custom |-> FALSE, EphemeralBlockDevice |-> {"/dev/sda1"},
       DefaultBlockDeviceMappings |->
           << [DeviceName |-> "/dev/sda1", RootVolume |-> FALSE,
               VolumeSize |-> {[n |-> 50, unit |-> "Gi"]}] >>],
      [Name |-> "Custom", Custom |-> TRUE, EphemeralBlockDevice |-> {},
       DefaultBlockDeviceMappings |-> <<>>] }

\* lo.Find: the first element of the sequence that satisfies the predicate,
\* {} when there is none
Find(seq, Pred(_)) ==
    LET hits == {i \in 1..Len(seq) : Pred(seq[i])}
    IN IF hits = {} THEN {} ELSE {seq[CHOOSE i \in hits : \A j \in hits : i <= j]}

\* ephemeralStorage with the checks for a root volume and for RAID0 exchanged
ephemeralStorageRootVolumeFirst(totalSizeInGB, amiFamily, blockDeviceMappings, instanceStorePolicy) ==
    LET rootVolume == Find(blockDeviceMappings, LAMBDA bdm : bdm.RootVolume)
    IN IF rootVolume # {} /\ (CHOOSE bdm \in rootVolume : TRUE).VolumeSize # {}
       THEN (CHOOSE bdm \in rootVolume : TRUE).VolumeSize
       ELSE IF instanceStorePolicy = {"RAID0"} /\ totalSizeInGB # {}
            THEN {[n |-> CHOOSE g \in totalSizeInGB : TRUE, unit |-> "G"]}
            ELSE DefaultEBS.VolumeSize

\* ephemeralStorage; totalSizeInGB is info.InstanceStorageInfo.TotalSizeInGB
\* ({} when either pointer is nil), a quantity is {[n, unit]} and {} for nil
ephemeralStorage(totalSizeInGB, amiFamily, blockDeviceMappings, instanceStorePolicy) ==
    LET rootVolume == Find(blockDeviceMappings, LAMBDA bdm : bdm.RootVolume)
        ephemeralMapping ==
            Find(blockDeviceMappings,
                 LAMBDA bdm : {bdm.DeviceName} = amiFamily.EphemeralBlockDevice)
        ephemeralBlockDevice ==
            Find(amiFamily.DefaultBlockDeviceMappings,
                 LAMBDA item : amiFamily.EphemeralBlockDevice = {item.DeviceName})
        fromFamily ==
            IF ephemeralBlockDevice # {}
            THEN (CHOOSE item \in ephemeralBlockDevice : TRUE).VolumeSize
            ELSE DefaultEBS.VolumeSize
    IN IF instanceStorePolicy = {"RAID0"} /\ totalSizeInGB # {}
       THEN {[n |-> CHOOSE g \in totalSizeInGB : TRUE, unit |-> "G"]}
       ELSE IF Len(blockDeviceMappings) = 0
       THEN fromFamily
       ELSE IF rootVolume # {} /\ (CHOOSE bdm \in rootVolume : TRUE).VolumeSize # {}
       THEN (CHOOSE bdm \in rootVolume : TRUE).VolumeSize
       ELSE IF amiFamily.Custom
       THEN LET volumeSize == blockDeviceMappings[Len(blockDeviceMappings)].VolumeSize
            IN IF volumeSize # {} THEN volumeSize ELSE DefaultEBS.VolumeSize
       ELSE IF ephemeralMapping # {} /\ (CHOOSE bdm \in ephemeralMapping : TRUE).VolumeSize # {}
       THEN (CHOOSE bdm \in ephemeralMapping : TRUE).VolumeSize
       ELSE fromFamily

\* Quantities of memory and storage are counted in KiB
Mi == 1024

\* math.Ceil of the quotient of two non-negative numbers
Ceil(a, b) == (a + b - 1) \div b

\* mustParsePercentage of a signal value "p%"
mustParsePercentage(p) == IF p = 100 THEN 0 ELSE p

\* computeEvictionSignal; a signal value is a percentage "p%"
\* ([percent |-> p]) or a quantity ([quantity |-> q])
computeEvictionSignal(capacity, signalValue) ==
    IF "percent" \in DOMAIN signalValue
    THEN Ceil(capacity * mustParsePercentage(signalValue.percent), 100)
    ELSE signalValue.quantity

\* resources.MaxResources of two resource lists: for every resource of
\* either list the greater of its quantities
MaxResources(a, b) ==
    [r \in DOMAIN a \cup DOMAIN b |->
        IF r \notin DOMAIN b THEN a[r]
        ELSE IF r \notin DOMAIN a THEN b[r]
        ELSE IF a[r] >= b[r] THEN a[r] ELSE b[r]]

\* lo.Assign: the entries of the right map replace those of the left
Assign(left, right) ==
    [r \in DOMAIN left \cup DOMAIN right |-> IF r \in DOMAIN right THEN right[r] ELSE left[r]]

\* The resource list of one map of eviction signals (temp in evictionThreshold)
signalResources(memory, storage, m) ==
    [r \in {x \in {"memory", "ephemeral-storage"} :
               \/ x = "memory" /\ "memory.available" \in DOMAIN m
               \/ x = "ephemeral-storage" /\ "nodefs.available" \in DOMAIN m} |->
        IF r = "memory" THEN computeEvictionSignal(memory, m["memory.available"])
        ELSE computeEvictionSignal(storage, m["nodefs.available"])]

\* evictionThreshold keeping the defaults as lower limits
evictionThresholdAtLeastDefault(memory, storage, evictionSoftEnabled, evictionHard, evictionSoft) ==
    LET overhead == [r \in {"memory", "ephemeral-storage"} |->
                        IF r = "memory" THEN 100 * Mi ELSE Ceil(storage * 10, 100)]
        fromHard == UNION {{signalResources(memory, storage, m)} : m \in evictionHard}
        fromSoft == IF evictionSoftEnabled
                    THEN UNION {{signalResources(memory, storage, m)} : m \in evictionSoft}
                    ELSE {}
        RECURSIVE maxOver(_, _)
        maxOver(lists, acc) ==
            IF lists = {} THEN acc
            ELSE LET l == CHOOSE x \in lists : TRUE
                 IN maxOver(lists \ {l}, MaxResources(acc, l))
    IN maxOver(fromHard \cup fromSoft, overhead)

\* evictionThreshold; a map of signals is {} for nil and {m} otherwise
evictionThreshold(memory, storage, evictionSoftEnabled, evictionHard, evictionSoft) ==
    LET overhead == [r \in {"memory", "ephemeral-storage"} |->
                        IF r = "memory" THEN 100 * Mi ELSE Ceil(storage * 10, 100)]
        evictionSignals ==
            (IF evictionHard # {} THEN <<CHOOSE m \in evictionHard : TRUE>> ELSE <<>>) \o
            (IF evictionSoft # {} /\ evictionSoftEnabled
             THEN <<CHOOSE m \in evictionSoft : TRUE>> ELSE <<>>)
        RECURSIVE override(_)
        override(n) ==
            IF n = 0 THEN <<>>
            ELSE MaxResources(override(n - 1),
                              signalResources(memory, storage, evictionSignals[n]))
    IN Assign(overhead, override(Len(evictionSignals)))

-----------------------------------------------------------------------------
(* Launch orchestrator: pure steps *)

filterExoticWithoutFallback(its) ==
    SelectSeq(its, LAMBDA it :
        /\ it.Size # "metal"
        /\ ~ \/ it.Accelerators.Neuron # 0
             \/ it.Accelerators.AMDGPU # 0
             \/ it.Accelerators.NvidiaGPU # 0
             \/ it.Accelerators.Gaudi # 0)

\* filterExoticInstanceTypes
filterExoticInstanceTypes(its) ==
    LET genericInstanceTypes ==
            SelectSeq(its, LAMBDA it :
                /\ it.Size # "metal"
                /\ ~ \/ it.Accelerators.Neuron # 0
                     \/ it.Accelerators.AMDGPU # 0
                     \/ it.Accelerators.NvidiaGPU # 0
                     \/ it.Accelerators.Gaudi # 0)
    IN IF Len(genericInstanceTypes) # 0 THEN genericInstanceTypes ELSE its

\* isMixedCapacityLaunch
isMixedCapacityLaunch(m, its) ==
    IF CapacityTypeSpot \notin m.capacityTypes \/ CapacityTypeOnDemand \notin m.capacityTypes
    THEN FALSE
    ELSE LET hasSpotOfferings ==
                 \E i \in 1..Len(its) : \E o \in Range(Available(its[i].Offerings)) :
                     o.Zone \in m.zones /\ o.CapacityType = CapacityTypeSpot
             hasODOffering ==
                 \E i \in 1..Len(its) : \E o \in Range(Available(its[i].Offerings)) :
                     o.Zone \in m.zones /\ o.CapacityType # CapacityTypeSpot
         IN hasSpotOfferings /\ hasODOffering

\* filterUnwantedSpot keeping the greatest on-demand price instead of the least
dearestOnDemand(its) ==
    LET prices == {o.Price : o \in {a \in UNION {Range(Available(its[i].Offerings)) : i \in 1..Len(its)} :
                                        a.CapacityType = CapacityTypeOnDemand}}
    IN IF prices = {} THEN MaxFloat64
       ELSE CHOOSE p \in prices : \A q \in prices : p >= q

\* filterUnwantedSpot: the price of the cheapest available on-demand offering
cheapestOnDemand(its) ==
    LET prices == {o.Price : o \in {a \in UNION {Range(Available(its[i].Offerings)) : i \in 1..Len(its)} :
                                        a.CapacityType = CapacityTypeOnDemand}}
    IN IF prices = {} THEN MaxFloat64
       ELSE CHOOSE p \in prices : \A q \in prices : p <= q

\* The predicate of lo.Filter comparing a spot price with the whole on-demand price
wantedAtFullPrice(item, cod) ==
    LET available == Available(item.Offerings)
    IN IF Len(available) = 0 THEN FALSE
       ELSE Cheapest(available).Price <= cod

\* filterUnwantedSpot: the predicate of lo.Filter
wantedInstanceType(item, cod) ==
    LET available == Available(item.Offerings)
    IN IF Len(available) = 0 THEN FALSE
       ELSE LET cheapest == Cheapest(available)
            IN IF cheapest.CapacityType = CapacityTypeOnDemand
               THEN cheapest.Price <= cod
               ELSE 100 * cheapest.Price <= 72 * cod

\* filterUnwantedSpot
filterUnwantedSpot(its) ==
    LET cod == cheapestOnDemand(its)
    IN SelectSeq(its, LAMBDA item : wantedInstanceType(item, cod))

\* filterInstanceTypes
filterInstanceTypes(m, its) ==
    LET generic == filterExoticInstanceTypes(its)
    IN IF isMixedCapacityLaunch(m, generic) THEN filterUnwantedSpot(generic) ELSE generic

\* orderInstanceTypesByPrice: the price a type is sorted by
sortPrice(it, reqs) ==
    LET compatible == Requirements(Available(it.Offerings), reqs)
    IN IF Len(compatible) > 0 THEN Cheapest(compatible).Price ELSE MaxFloat64

lessByPriceThenName(a, b, reqs) ==
    LET iPrice == sortPrice(a, reqs)
        jPrice == sortPrice(b, reqs)
    IN IF iPrice = jPrice THEN NameRank(a.Name) < NameRank(b.Name) ELSE iPrice < jPrice

\* orderInstanceTypesByPrice: the less function of sort.Slice
lessByPrice(a, b, reqs) ==
    LET iPrice == sortPrice(a, reqs)
        jPrice == sortPrice(b, reqs)
    IN IF iPrice = jPrice THEN NameRank(a.Name) > NameRank(b.Name) ELSE iPrice < jPrice

\* orderInstanceTypesByPrice
orderInstanceTypesByPrice(its, reqs) ==
    SortSeq(its, LAMBDA a, b : lessByPrice(a, b, reqs))

\* Create: instanceTypes[0:MaxInstanceTypes]
truncate(its) ==
    IF Len(its) > MaxInstanceTypes THEN SubSeq(its, 1, MaxInstanceTypes) ELSE its

\* Create: filter, order and truncate
selectInstanceTypes(m, its) ==
    truncate(orderInstanceTypesByPrice(filterInstanceTypes(m, its), m))

\* getCapacityType without the test of the zone requirement
getCapacityTypeAnyZone(m, its) ==
    IF /\ CapacityTypeSpot \in m.capacityTypes
       /\ \E i \in 1..Len(its) : \E o \in Range(Available(its[i].Offerings)) :
              o.CapacityType = CapacityTypeSpot
    THEN CapacityTypeSpot
    ELSE CapacityTypeOnDemand

\* getCapacityType
getCapacityType(m, its) ==
    IF /\ CapacityTypeSpot \in m.capacityTypes
       /\ \E i \in 1..Len(its) : \E o \in Range(Available(its[i].Offerings)) :
              o.Zone \in m.zones /\ o.CapacityType = CapacityTypeSpot
    THEN CapacityTypeSpot
    ELSE CapacityTypeOnDemand

\* getOverrides ranging over all the offerings of the types, not the available ones
unwrappedOfferingsAll(its) ==
    LET RECURSIVE unwrap(_)
        unwrap(k) ==
            IF k > Len(its) THEN <<>>
            ELSE LET ofs == its[k].Offerings
                 IN [j \in 1..Len(ofs) |->
                        [Zone |-> ofs[j].Zone, CapacityType |-> ofs[j].CapacityType,
                         Price |-> ofs[j].Price, Available |-> ofs[j].Available,
                         parentInstanceTypeName |-> its[k].Name]] \o unwrap(k + 1)
    IN unwrap(1)

\* getOverrides: the available offerings of the types, each with its parent's name
unwrappedOfferings(its) ==
    LET RECURSIVE unwrap(_)
        unwrap(k) ==
            IF k > Len(its) THEN <<>>
            ELSE LET ofs == Available(its[k].Offerings)
                 IN [j \in 1..Len(ofs) |->
                        [Zone |-> ofs[j].Zone, CapacityType |-> ofs[j].CapacityType,
                         Price |-> ofs[j].Price, Available |-> ofs[j].Available,
                         parentInstanceTypeName |-> its[k].Name]] \o unwrap(k + 1)
    IN unwrap(1)

overrideKeptAnyZone(offering, zonalSubnets, zones, capacityType) ==
    /\ capacityType = offering.CapacityType
    /\ offering.Zone \in DOMAIN zonalSubnets

\* getOverrides: the offerings that are not skipped by a continue
overrideKept(offering, zonalSubnets, zones, capacityType) ==
    /\ capacityType = offering.CapacityType
    /\ offering.Zone \in zones
    /\ offering.Zone \in DOMAIN zonalSubnets

\* getOverrides
getOverrides(its, zonalSubnets, zones, capacityType) ==
    LET kept == SelectSeq(unwrappedOfferings(its),
                          LAMBDA of : overrideKept(of, zonalSubnets, zones, capacityType))
    IN [j \in 1..Len(kept) |->
           [InstanceType |-> kept[j].parentInstanceTypeName,
            SubnetId |-> zonalSubnets[kept[j].Zone].SubnetId,
            AvailabilityZone |-> zonalSubnets[kept[j].Zone].AvailabilityZone]]

-----------------------------------------------------------------------------
(* Collaborators of the launch orchestrator *)

\* subnet.Provider.ZonalSubnetsForLaunch: one subnet for each zone of the node class's subnets
ZonalSubnetsForLaunch ==
    [z \in subnetZones |-> [SubnetId |-> <<"subnet", z>>, AvailabilityZone |-> z]]

\* launchtemplate.Provider: the name of the template of a bucket of instance types
LaunchTemplateName(capacityType, arch) == <<"karpenter.k8s.aws", capacityType, arch>>

\* launchtemplate.Provider.EnsureAll: template name -> the instance types it serves
EnsureAll(its, capacityType) ==
    LET names == {LaunchTemplateName(capacityType, its[i].Arch) : i \in 1..Len(its)}
    IN [n \in names |-> SelectSeq(its, LAMBDA it : LaunchTemplateName(capacityType, it.Arch) = n)]

\* getLaunchTemplateConfigs appending every config, with or without overrides
getLaunchTemplateConfigsUnfiltered(m, its, zonalSubnets, capacityType) ==
    LET launchTemplates == EnsureAll(its, capacityType)
    IN {[LaunchTemplateName |-> n,
         Overrides |-> getOverrides(launchTemplates[n], zonalSubnets, m.zones, capacityType)] :
            n \in DOMAIN launchTemplates}

\* getLaunchTemplateConfigs: the configs with at least one override
getLaunchTemplateConfigs(m, its, zonalSubnets, capacityType) ==
    LET launchTemplates == EnsureAll(its, capacityType)
        all == {[LaunchTemplateName |-> n,
                 Overrides |-> getOverrides(launchTemplates[n], zonalSubnets, m.zones, capacityType)] :
                    n \in DOMAIN launchTemplates}
    IN {c \in all : Len(c.Overrides) > 0}

\* awserrors: error codes
NoErr == "nil"
LaunchTemplateNotFoundCode == "InvalidLaunchTemplateName.NotFoundException"
InstanceNotFoundCode == "InvalidInstanceID.NotFound"
RequestLimitExceeded == "RequestLimitExceeded"
unfulfillableCapacityErrorCodes == {"InsufficientInstanceCapacity", "Unavailable", "SpotMaxPriceTooLow"}

\* awserrors.IsLaunchTemplateNotFound
IsLaunchTemplateNotFound(e) == e = LaunchTemplateNotFoundCode

\* awserrors.IsNotFound
IsNotFound(e) == e \in {LaunchTemplateNotFoundCode, InstanceNotFoundCode, "NoSuchEntity"}

\* awserrors.IsUnfulfillableCapacity
IsUnfulfillableCapacity(fleetErr) == fleetErr.ErrorCode \in unfulfillableCapacityErrorCodes

\* Errors made by the launch path
GettingSubnetsErr == "getting subnets"
GettingLaunchTemplatesErr == "getting launch template configs"
NoCapacityOfferingsErr == "no capacity offerings are currently available given the constraints"
InsufficientCapacityError == "InsufficientCapacityError: with fleet error(s)"
FleetErrors == "with fleet error(s)"
MachineNotFoundError == "MachineNotFoundError"
DescribeErr == "failed to describe ec2 instances"
SingleInstanceErr == "expected a single instance"
PrivateDnsNameErr == "PrivateDnsName was not set"
RetrievingNodeNameErr == "retrieving node name for instance"

NoId == "nil"
NoInstance == [InstanceId |-> NoId, PrivateDnsName |-> ""]
NoOutput == [err |-> NoErr, Instances |-> <<>>, Errors |-> {}, received |-> FALSE]
NoDescribe == [err |-> NoErr, Instances |-> <<>>, called |-> FALSE]
NoMachine == [capacityTypes |-> {}, zones |-> {}]

\* combineFleetErrors wrapping as soon as one error is a capacity error
combineFleetErrorsAnyICE(errors) ==
    LET iceErrorCount == Cardinality({e \in errors : IsUnfulfillableCapacity(e)})
    IN IF iceErrorCount > 0 THEN InsufficientCapacityError ELSE FleetErrors

\* combineFleetErrors returning the combined error as it is, nil for no error
combineFleetErrorsUnwrapped(errors) ==
    IF errors = {} THEN NoErr ELSE FleetErrors

\* combineFleetErrors
combineFleetErrors(errors) ==
    LET iceErrorCount == Cardinality({e \in errors : IsUnfulfillableCapacity(e)})
    IN IF iceErrorCount = Cardinality(errors) THEN InsufficientCapacityError ELSE FleetErrors

\* updateUnavailableOfferingsCache without the IsUnfulfillableCapacity test
markedKeysAllErrors(errors, capacityType) ==
    {UnavailableKey(e.InstanceType, e.AvailabilityZone, capacityType) : e \in errors}

\* updateUnavailableOfferingsCache: the keys MarkUnavailableForFleetErr is called with
markedKeys(errors, capacityType) ==
    {UnavailableKey(e.InstanceType, e.AvailabilityZone, capacityType) :
        e \in {x \in errors : IsUnfulfillableCapacity(x)}}

\* updateUnavailableOfferingsCache: the number of MarkUnavailableForFleetErr calls
markCalls(errors) == Cardinality({e \in errors : IsUnfulfillableCapacity(e)})

\* launchInstance: the template names Invalidate is called with
invalidated(launchTemplateConfigs) == {c.LaunchTemplateName : c \in launchTemplateConfigs}

\* launchInstance: what it returns for a CreateFleet output without a request error
launchResult(out) ==
    IF Len(out.Instances) = 0
    THEN [id |-> NoId, err |-> combineFleetErrors(out.Errors)]
    ELSE [id |-> out.Instances[1], err |-> NoErr]

\* Create retrying launchInstance after any error
retryLaunchAnyError(n, e) == n = 1 /\ e # NoErr

\* Create retrying launchInstance for as long as the launch template is not found
retryLaunchAgain(n, e) == IsLaunchTemplateNotFound(e)

\* Create: whether launchInstance is called again after call number n returned e
retryLaunch(n, e) == n = 1 /\ IsLaunchTemplateNotFound(e)

\* Get without the test of PrivateDnsName
GetAnyPrivateDnsName(d) ==
    IF IsNotFound(d.err) THEN [instance |-> NoInstance, err |-> MachineNotFoundError]
    ELSE IF d.err # NoErr THEN [instance |-> NoInstance, err |-> DescribeErr]
    ELSE IF Len(d.Instances) = 0 THEN [instance |-> NoInstance, err |-> MachineNotFoundError]
    ELSE IF Len(d.Instances) # 1 THEN [instance |-> NoInstance, err |-> SingleInstanceErr]
    ELSE [instance |-> d.Instances[1], err |-> NoErr]

\* Get
Get(d) ==
    IF IsNotFound(d.err) THEN [instance |-> NoInstance, err |-> MachineNotFoundError]
    ELSE IF d.err # NoErr THEN [instance |-> NoInstance, err |-> DescribeErr]
    ELSE IF Len(d.Instances) = 0 THEN [instance |-> NoInstance, err |-> MachineNotFoundError]
    ELSE IF Len(d.Instances) # 1 THEN [instance |-> NoInstance, err |-> SingleInstanceErr]
    ELSE IF d.Instances[1].PrivateDnsName = "" THEN [instance |-> NoInstance, err |-> PrivateDnsNameErr]
    ELSE [instance |-> d.Instances[1], err |-> NoErr]

TerminatingInstanceErr == "terminating instance"

\* cloudprovider.IsMachineNotFoundError: errors.As along the chain of an error;
\* an error is the sequence of the errors it wraps, outermost first, nil is <<>>
IsMachineNotFoundError(e) == \E i \in 1..Len(e) : e[i] = MachineNotFoundError

\* multierr.Append: nil errors are left out
Append2(left, right) ==
    (IF left = NoErr THEN <<>> ELSE <<left>>) \o (IF right = NoErr THEN <<>> ELSE <<right>>)

\* Delete returning the error of TerminateInstances without the follow-up Get
DeleteWithoutGet(terminateErr, d) ==
    IF terminateErr # NoErr
    THEN IF IsNotFound(terminateErr) THEN <<MachineNotFoundError>>
         ELSE <<TerminatingInstanceErr, terminateErr>>
    ELSE <<>>

\* Delete, for the error of TerminateInstances and the outcome of the
\* DescribeInstances call of the follow-up Get
Delete(terminateErr, d) ==
    IF terminateErr # NoErr
    THEN IF IsNotFound(terminateErr) THEN <<MachineNotFoundError>>
         ELSE LET e == Get(d).err
              IN IF terminateErr # NoErr /\ IsMachineNotFoundError(<<e>>)
                 THEN <<e>>
                 ELSE <<TerminatingInstanceErr>> \o Append2(terminateErr, e)
    ELSE <<>>

\* retry.Do with retry.Attempts: whether another attempt follows attempt number n
retryGet(n, e) == e # NoErr /\ n < RetryAttempts

-----------------------------------------------------------------------------
(* The cloud *)

\* ec2 CreateFleet: the (instance type, zone) pairs of the overrides of a request
overridePairs(input) ==
    UNION {{<<c.Overrides[j].InstanceType, c.Overrides[j].AvailabilityZone>> : j \in 1..Len(c.Overrides)} :
              c \in input.LaunchTemplateConfigs}

FleetErrorCodes == {"InsufficientInstanceCapacity", "InvalidFleetConfiguration"}

\* ec2 CreateFleet: the per-override error lists a response may carry
FleetErrorSets(input) ==
    {E \in SUBSET {[ErrorCode |-> c, InstanceType |-> p[1], AvailabilityZone |-> p[2]] :
                      c \in FleetErrorCodes, p \in overridePairs(input)} :
        Cardinality(E) <= MaxFleetErrors}

\* ec2 CreateFleet: the id of the instance launched by call number n (ids are fresh)
newInstanceId(n) == IF n = 1 THEN "i-1" ELSE "i-2"

\* ec2 DescribeInstances for one instance id
DescribeOutcomes(instanceId) ==
    { [err |-> InstanceNotFoundCode, Instances |-> <<>>, called |-> TRUE],
      [err |-> RequestLimitExceeded, Instances |-> <<>>, called |-> TRUE],
      [err |-> NoErr, Instances |-> <<>>, called |-> TRUE],
      [err |-> NoErr, Instances |-> <<[InstanceId |-> instanceId, PrivateDnsName |-> ""]>>, called |-> TRUE],
      [err |-> NoErr, Instances |-> <<[InstanceId |-> instanceId, PrivateDnsName |-> "ip-10-0-0-1"]>>, called |-> TRUE],
      [err |-> NoErr, Instances |-> <<[InstanceId |-> instanceId, PrivateDnsName |-> "ip-10-0-0-1"],
                                      [InstanceId |-> "i-9", PrivateDnsName |-> "ip-10-0-0-9"]>>, called |-> TRUE] }

\* Candidate sets a caller of Create may pass: the listed types compatible with its machine
CandidateNames == {InstanceTypeNames, {"p3.2xlarge"}}

NoRequest == [Type |-> "none", DefaultTargetCapacityType |-> "", TotalTargetCapacity |-> 0,
              LaunchTemplateConfigs |-> {}]

-----------------------------------------------------------------------------
(* Instance-profile provider (instanceprofile.DefaultProvider) and IAM *)

\* The owners of managed instance profiles (ResourceOwner.GetUID)
NodeClasses == {"uid-1", "uid-2"}

\* ResourceOwner.InstanceProfileRole: spec.role of the node class
InstanceProfileRole(uid) == IF uid = "uid-1" THEN "R1" ELSE "R2"

\* ResourceOwner.InstanceProfileName: profileName(clusterName, region, uid)
InstanceProfileName(uid) == <<"cluster", "region", uid>>

ProfileNames == {InstanceProfileName(uid) : uid \in NodeClasses}

\* iam.InstanceProfile as the provider reads it: whether it exists, whether it
\* carries a tag with the cluster-name key, and its roles (IAM allows at most one)
NoProfile == [exists |-> FALSE, tagged |-> FALSE, Roles |-> <<>>]

ProfileStates ==
    {NoProfile} \cup
    {[exists |-> TRUE, tagged |-> t, Roles |-> r] :
        t \in BOOLEAN, r \in {<<>>} \cup {<<role>> : role \in {"R1", "R2"}}}

\* awserrors.IgnoreNotFound applied to the error that wraps an IAM error code
IgnoreNotFound(code, wrapped) == IF code = "NoSuchEntity" THEN NoErr ELSE wrapped

\* The failure the cloud injects into a provider call: the k-th IAM call of the
\* call returns a throttling error and changes nothing (0: no call fails)
FailPoints == 0..4

iamCall(api, code) == [api |-> api, err |-> code]

\* IAM GetInstanceProfile
GetInstanceProfileErr(profile, fail, k) ==
    IF fail = k THEN "Throttling"
    ELSE IF ~profile.exists THEN "NoSuchEntity" ELSE NoErr

\* IAM DeleteInstanceProfile: refused while a role is attached; not found when
\* the profile was deleted by someone else since it was read
DeleteInstanceProfileErr(profile, fail, k, gone) ==
    IF fail = k THEN "Throttling"
    ELSE IF gone THEN "NoSuchEntity"
    ELSE IF profile.Roles # <<>> THEN "DeleteConflict" ELSE NoErr

\* lo.ContainsBy(out.InstanceProfile.Tags, key == EKSClusterNameTagKey)
hasClusterTag(profile) == profile.tagged

hasRoleNever(profile) == FALSE

\* len(instanceProfile.Roles) == 1
hasRole(profile) == Len(profile.Roles) = 1

roleMatchesAny(profile, role) == TRUE

\* instanceProfile.Roles[0].RoleName == m.InstanceProfileRole()
roleMatches(profile, role) == profile.Roles[1] = role

profileResult(profile, cached, calls, name, e) ==
    [profile |-> profile, cache |-> cached, calls |-> calls, name |-> name, err |-> e]

\* DefaultProvider.Create from the role check on: `view` is the instance profile the
\* call holds (the output of get or create), `cur` the profile in IAM, k the
\* number of the next IAM call
ensureRole(uid, view, cur, cached, calls, fail, k) ==
    LET name == InstanceProfileName(uid)
        role == InstanceProfileRole(uid)
        swap == hasRole(view)
        removeErr == IF fail = k THEN "Throttling" ELSE NoErr
        calls2 == IF swap THEN Append(calls, iamCall("RemoveRoleFromInstanceProfile", removeErr))
                  ELSE calls
        cur2 == IF swap THEN [cur EXCEPT !.Roles = <<>>] ELSE cur
        k2 == IF swap THEN k + 1 ELSE k
        addErr == IF fail = k2 THEN "Throttling" ELSE NoErr
        calls3 == Append(calls2, iamCall("AddRoleToInstanceProfile", addErr))
    IN IF swap /\ roleMatches(view, role)
       THEN profileResult(cur, cached, calls, name, NoErr)
       ELSE IF swap /\ removeErr # NoErr
       THEN profileResult(cur, cached, calls2, "", "removing role")
       ELSE IF addErr # NoErr
       THEN profileResult(cur2, cached, calls3, "", "adding role")
       ELSE profileResult([cur2 EXCEPT !.Roles = <<role>>], cached \cup {uid}, calls3,
                          name, NoErr)

\* DefaultProvider.Create
DefaultProviderCreate(profiles, cached, uid, fail) ==
    LET name == InstanceProfileName(uid)
        out == profiles[name]
        getErr == GetInstanceProfileErr(out, fail, 1)
        get == <<iamCall("GetInstanceProfile", getErr)>>
        createErr == IF fail = 2 THEN "Throttling" ELSE NoErr
        create == Append(get, iamCall("CreateInstanceProfile", createErr))
        created == [exists |-> TRUE, tagged |-> TRUE, Roles |-> <<>>]
        tagErr == IF fail = 2 THEN "Throttling" ELSE NoErr
        tag == Append(get, iamCall("TagInstanceProfile", tagErr))
    IN IF uid \in cached
       THEN profileResult(out, cached, <<>>, name, NoErr)
       ELSE IF getErr # NoErr
       THEN IF ~IsNotFound(getErr)
            THEN profileResult(out, cached, get, "", "getting instance profile")
            ELSE IF createErr # NoErr
            THEN profileResult(out, cached, create, "", "creating instance profile")
            ELSE ensureRole(uid, created, created, cached, create, fail, 3)
       ELSE IF ~hasClusterTag(out)
       THEN IF tagErr # NoErr
            THEN profileResult(out, cached, tag, "", "tagging instance profile")
            ELSE ensureRole(uid, out, [out EXCEPT !.tagged = TRUE], cached, tag, fail, 3)
       ELSE ensureRole(uid, out, out, cached, get, fail, 2)

\* DefaultProvider.Delete; `gone`: the profile is deleted by someone else between
\* the get and the delete of the call
DefaultProviderDelete(profiles, cached, uid, fail, gone) ==
    LET name == InstanceProfileName(uid)
        out == profiles[name]
        getErr == GetInstanceProfileErr(out, fail, 1)
        get == <<iamCall("GetInstanceProfile", getErr)>>
        detach == hasRole(out)
        removeErr == IF fail = 2 THEN "Throttling" ELSE NoErr
        calls2 == IF detach THEN Append(get, iamCall("RemoveRoleFromInstanceProfile", removeErr))
                  ELSE get
        cur2 == IF detach THEN [out EXCEPT !.Roles = <<>>] ELSE out
        k2 == IF detach THEN 3 ELSE 2
        deleteErr == DeleteInstanceProfileErr(cur2, fail, k2, gone)
        calls3 == Append(calls2, iamCall("DeleteInstanceProfile", deleteErr))
    IN IF getErr # NoErr
       THEN profileResult(out, cached, get, "", IgnoreNotFound(getErr, "getting instance profile"))
       ELSE IF detach /\ removeErr # NoErr
       THEN profileResult(out, cached, calls2, "", "removing role")
       ELSE IF deleteErr # NoErr
       THEN profileResult(IF gone THEN NoProfile ELSE cur2, cached, calls3, "",
                          IgnoreNotFound(deleteErr, "deleting instance profile"))
       ELSE profileResult(NoProfile, cached, calls3, "", NoErr)

NoCall == [op |-> "none"]

-----------------------------------------------------------------------------
(* Node-class status controller (status.Controller) and its resolvers *)

\* An EC2NodeClass just created: no finalizer, empty status.  nil and empty
\* slices are the same value, as they are for equality.Semantic.DeepEqual.
NewNodeClass ==
    [finalizer |-> FALSE,
     Status |-> [AMIs |-> <<>>, Subnets |-> <<>>, SecurityGroups |-> <<>>,
                 InstanceProfile |-> "", SecurityGroupsReady |-> "Unknown",
                 SubnetsReady |-> "Unknown", Ready |-> "Unknown"]]

\* The subnets of the account; rank orders the subnet ids lexicographically
EC2Subnets ==
    {[SubnetId |-> "subnet-a", rank |-> 1, AvailabilityZone |-> "zone-a",
      AvailableIpAddressCount |-> 10],
     [SubnetId |-> "subnet-b", rank |-> 2, AvailabilityZone |-> "zone-b",
      AvailableIpAddressCount |-> 20]}

\* The less function of Subnet.Reconcile's sort.Slice
subnetLess(a, b) ==
    IF a.AvailableIpAddressCount # b.AvailableIpAddressCount
    THEN a.AvailableIpAddressCount > b.AvailableIpAddressCount
    ELSE a.rank < b.rank

\* sort.Slice(subnets, less) and the lo.Map to v1beta1.Subnet
sortedSubnets(subnets) ==
    LET n == Cardinality(subnets)
        sorted == CHOOSE seq \in [1..n -> subnets] :
                      \A i, j \in 1..n : i < j => subnetLess(seq[i], seq[j])
    IN [i \in 1..n |-> [ID |-> sorted[i].SubnetId, Zone |-> sorted[i].AvailabilityZone]]

resolved(nc, res, e) == [nodeClass |-> nc, res |-> res, err |-> e]

SubnetReconcileKeepsSubnets(nc, out) ==
    IF out.err # NoErr
    THEN resolved(nc, 0, out.err)
    ELSE IF Cardinality(out.subnets) = 0
    THEN resolved(nc, 0, "no subnets exist given constraints")
    ELSE resolved([nc EXCEPT !.Status.Subnets = sortedSubnets(out.subnets)], 5 * 60, NoErr)

\* A subnet resolver that reports an empty result as a condition, not an error
SubnetReconcileSetsCondition(nc, out) ==
    IF out.err # NoErr
    THEN resolved(nc, 0, out.err)
    ELSE IF Cardinality(out.subnets) = 0
    THEN resolved([nc EXCEPT !.Status.Subnets = <<>>,
                             !.Status.SubnetsReady = "False"], 0, NoErr)
    ELSE resolved([nc EXCEPT !.Status.Subnets = sortedSubnets(out.subnets)], 5 * 60, NoErr)

\* Subnet.Reconcile; `out` is what subnetProvider.List returns; a requeue
\* delay is in seconds, 0 for reconcile.Result{}
SubnetReconcile(nc, out) ==
    IF out.err # NoErr
    THEN resolved(nc, 0, out.err)
    ELSE IF Cardinality(out.subnets) = 0
    THEN resolved([nc EXCEPT !.Status.Subnets = <<>>], 0, "no subnets exist given constraints")
    ELSE resolved([nc EXCEPT !.Status.Subnets = sortedSubnets(out.subnets)], 5 * 60, NoErr)

\* The security groups of the account; rank orders the group ids lexicographically
EC2SecurityGroups ==
    {[GroupId |-> "sg-1", rank |-> 1, GroupName |-> "nodes"],
     [GroupId |-> "sg-2", rank |-> 2, GroupName |-> "cluster"]}

\* The security groups sorted by group name instead of group id
sortedGroupsByName(groups) ==
    LET n == Cardinality(groups)
        sorted == CHOOSE seq \in [1..n -> groups] :
                      \A i, j \in 1..n : i < j => seq[i].rank > seq[j].rank
    IN [i \in 1..n |-> [ID |-> sorted[i].GroupId, Name |-> sorted[i].GroupName]]

\* sort.Slice(securityGroups, by GroupId) and the lo.Map to v1.SecurityGroup
sortedGroups(groups) ==
    LET n == Cardinality(groups)
        sorted == CHOOSE seq \in [1..n -> groups] :
                      \A i, j \in 1..n : i < j => seq[i].rank < seq[j].rank
    IN [i \in 1..n |-> [ID |-> sorted[i].GroupId, Name |-> sorted[i].GroupName]]

\* SecurityGroup.Reconcile; `out` is what securityGroupProvider.List returns,
\* `terms` says whether the node class has security-group selector terms
SecurityGroupReconcile(nc, out, terms) ==
    IF out.err # NoErr
    THEN resolved(nc, 0, "getting security groups")
    ELSE IF Cardinality(out.groups) = 0 /\ terms
    THEN resolved([nc EXCEPT !.Status.SecurityGroups = <<>>,
                             !.Status.SecurityGroupsReady = "False"], 0, NoErr)
    ELSE resolved([nc EXCEPT !.Status.SecurityGroups = sortedGroups(out.groups),
                             !.Status.SecurityGroupsReady = "True"], 5 * 60, NoErr)

\* The resolvers of the controller, in the order of its loop
statusResolvers == <<"ami", "subnet", "securitygroup", "instanceprofile", "readiness">>

\* reconciler.Reconcile(ctx, nodeClass) of the resolver of that name.  The AMI,
\* instance-profile and readiness resolvers write their part of the status and
\* return the result and error given as their input.
resolverReconcile(name, nc, in) ==
    CASE name = "ami" ->
            resolved([nc EXCEPT !.Status.AMIs = in.ami.value], in.ami.res, in.ami.err)
      [] name = "subnet" -> SubnetReconcile(nc, in.subnets)
      [] name = "securitygroup" -> SecurityGroupReconcile(nc, in.securityGroups, in.terms)
      [] name = "instanceprofile" ->
            resolved([nc EXCEPT !.Status.InstanceProfile = in.instanceProfile.value],
                     in.instanceProfile.res, in.instanceProfile.err)
      [] name = "readiness" ->
            resolved([nc EXCEPT !.Status.Ready = in.readiness.value],
                     in.readiness.res, in.readiness.err)

\* multierr.Append
multierrAppend(errs, e) == IF e = NoErr THEN errs ELSE Append(errs, e)

\* result.Min: the smallest requeue delay of the results that ask for one
resultMin(results) ==
    LET delays == {results[i] : i \in 1..Len(results)} \ {0}
    IN IF delays = {} THEN 0 ELSE CHOOSE d \in delays : \A other \in delays : d <= other

\* A patch or a resolver call of a Reconcile, with what it returned
reconcileOp(name, res, e) == [op |-> name, res |-> res, err |-> e]

moreResolversUntilError(i, errs) == i <= Len(statusResolvers) /\ errs = <<>>

\* for _, reconciler := range []nodeClassStatusReconciler{...}
moreResolvers(i, errs) == i <= Len(statusResolvers)

\* The loop of Controller.Reconcile over the resolvers, from the i-th on
RECURSIVE runResolvers(_, _, _, _, _, _)
runResolvers(i, nc, results, errs, ops, in) ==
    IF ~moreResolvers(i, errs)
    THEN [nodeClass |-> nc, results |-> results, errs |-> errs, ops |-> ops]
    ELSE LET r == resolverReconcile(statusResolvers[i], nc, in)
         IN runResolvers(i + 1, r.nodeClass, Append(results, r.res),
                         multierrAppend(errs, r.err),
                         Append(ops, reconcileOp(statusResolvers[i], r.res, r.err)), in)

\* client.IgnoreNotFound
clientIgnoreNotFound(e) == IF e = "NotFound" THEN NoErr ELSE e

statusChangedAlways(stored, nc) == TRUE

\* !equality.Semantic.DeepEqual(stored, nodeClass)
statusChanged(stored, nc) == stored # nc

needsFinalizerAlways(object) == TRUE

\* !controllerutil.ContainsFinalizer(nodeClass, v1.TerminationFinalizer)
needsFinalizer(object) == ~object.finalizer

returnedResultMin(errs, results) == resultMin(results)

\* return reconcile.Result{}, errs / return result.Min(results...), nil
returnedResult(errs, results) == IF errs # <<>> THEN 0 ELSE resultMin(results)

\* Controller.Reconcile once the loop over the resolvers has returned `run`
afterResolvers(object, stored, run, in) ==
    LET patch == statusChanged(stored, run.nodeClass)
        errs == IF patch /\ in.statusPatch # NoErr
                THEN multierrAppend(run.errs, clientIgnoreNotFound(in.statusPatch))
                ELSE run.errs
    IN [op |-> "Reconcile", in |-> in, object |-> object, nodeClass |-> run.nodeClass,
        server |-> IF patch /\ in.statusPatch = NoErr THEN run.nodeClass ELSE stored,
        ops |-> IF patch THEN Append(run.ops, reconcileOp("patch status", 0, in.statusPatch))
                ELSE run.ops,
        res |-> returnedResult(errs, run.results),
        errs |-> errs]

\* Controller.Reconcile on the node class `object` read from the API server.
\* nodeClass: the object Reconcile holds when it returns; server: the object
\* the API server stores afterwards; ops: the patches and resolver calls made,
\* in order; res, errs: what Reconcile returns.
ControllerReconcile(object, in) ==
    LET addFinalizer == needsFinalizer(object)
        stored == [object EXCEPT !.finalizer = TRUE]
        ops == IF addFinalizer THEN <<reconcileOp("patch finalizer", 0, in.finalizerPatch)>>
               ELSE <<>>
    IN IF addFinalizer /\ in.finalizerPatch # NoErr
       THEN [op |-> "Reconcile", in |-> in, object |-> object, nodeClass |-> stored,
             server |-> object, ops |-> ops, res |-> 0, errs |-> <<in.finalizerPatch>>]
       ELSE CHOOSE r \in {afterResolvers(object, stored, run, in) :
                             run \in {runResolvers(1, stored, <<>>, <<>>, ops, in)}} : TRUE

\* No node class in the cluster: nothing in IAM, nothing cached,
\* nothing reconciled
NodeClassIdle ==
    /\ iam = [name \in ProfileNames |-> NoProfile]
    /\ profileCache = {}
    /\ failedSince = {}
    /\ ipCall = NoCall
    /\ nodeClass = NewNodeClass
    /\ reconciled = NoCall
    /\ reconciles = 0

-----------------------------------------------------------------------------
(* Instance-type catalogue: the raw data of EC2, its cache and its monitors *)

\* Goroutines calling instancetype.Provider.List concurrently
Callers == {"c1", "c2"}

\* What DescribeInstanceTypes can return: the instance types of the region
DescribedInstanceTypes == {InstanceTypeNames, InstanceTypeNames \ {"p3.2xlarge"}}

\* What DescribeInstanceTypeOfferings can return: the zones each type is offered in
DescribedOfferings ==
    {InstanceTypeOfferings,
     [name \in InstanceTypeNames |-> InstanceTypeOfferings[name] \ {"zone-c"}]}

\* The keys of the raw entries of p.cache and of the values p.cm monitors
RawKeys == {"types", "offerings", "zones"}

lockIgnored == TRUE

\* p.mu.Lock() returns: no other caller holds the mutex
muFree == mu = "free"

\* pretty.ChangeMonitor.HasChanged: the value differs from the one last seen
\* under the key, or none was seen
HasChanged(seen, value) == seen # {value}

addedAlways(seqNum, changed) == seqNum + 1

\* if p.cm.HasChanged(...) { atomic.AddUint64(&seqNum, 1) }
addedIfChanged(seqNum, changed) == IF changed THEN seqNum + 1 ELSE seqNum

\* A caller about to call List
callingList ==
    [pc |-> "GetInstanceTypes", instanceTypes |-> {}, instanceTypeOfferings |-> {},
     zones |-> {}, key |-> <<>>]

\* The provider after NewProvider, with no List call made yet
CatalogIdle ==
    /\ mu = "free"
    /\ rawCache = [key \in RawKeys |-> {}]
    /\ cm = [key \in RawKeys |-> {}]
    /\ instanceTypesSeqNum = 0
    /\ instanceTypeOfferingsSeqNum = 0
    /\ ec2 = [types |-> InstanceTypeNames, offerings |-> InstanceTypeOfferings]
    /\ callers = [c \in Callers |-> callingList]
    /\ listCache = <<>>
    /\ seqData = [types |-> <<>>, offerings |-> <<>>]
    /\ catalogCall = NoCall
    /\ fetched = [key \in RawKeys |-> {}]
    /\ fills = [key \in RawKeys |-> 0]
    /\ changes = 0
    /\ apiserver = [name \in NodeClasses |-> {}]

-----------------------------------------------------------------------------
(* State machine *)

NoProbe == [kind |-> "none"]

Init ==
    /\ subnetZones = {"zone-a", "zone-b"}
    /\ unavailable = {}
    /\ SeqNum = 0
    /\ cache = <<>>
    /\ ltCache = {}
    /\ listed = <<>>
    /\ listedMarks = {}
    /\ pc = "idle"
    /\ machine = NoMachine
    /\ instanceTypes = <<>>
    /\ launches = 0
    /\ request = NoRequest
    /\ fleetOutput = NoOutput
    /\ id = NoId
    /\ err = NoErr
    /\ getAttempts = 0
    /\ described = NoDescribe
    /\ instance = NoInstance
    /\ probe = NoProbe
    /\ NodeClassIdle
    /\ CatalogIdle

callVars == <<pc, machine, instanceTypes, launches, request, fleetOutput, id, err,
              getAttempts, described, instance>>

\* instancetype.Provider.List, called by the caller of Create.  SeqNum never decreases,
\* so an entry cached under an earlier SeqNum is never hit again: the model drops such
\* entries when List stores a result instead of keeping them until their TTL elapses.
List ==
    /\ pc = "idle"
    /\ \E order \in ListOrders :
          LET key == ListKey
              result == IF key \in DOMAIN cache THEN cache[key] ELSE ListResult(order)
              live == {k \in DOMAIN cache : k[1] >= SeqNum}
          IN /\ cache' = IF key \in DOMAIN cache THEN cache
                         ELSE (key :> result) @@ [k \in live |-> cache[k]]
             /\ listed' = result
    /\ listedMarks' = unavailable
    /\ UNCHANGED <<subnetZones, unavailable, SeqNum, ltCache, callVars, probe, nodeClassVars, catalogVars>>

\* The TTL of an entry of the unavailable-offerings cache elapses.
ExpireUnavailable ==
    /\ pc = "idle"
    /\ \E key \in unavailable : unavailable' = unavailable \ {key}
    /\ UNCHANGED <<subnetZones, SeqNum, cache, ltCache, listed, listedMarks, callVars, probe, nodeClassVars, catalogVars>>

\* The TTL of an entry of the instance-type cache elapses.
ExpireCache ==
    /\ pc = "idle"
    /\ \E key \in DOMAIN cache : cache' = [k \in DOMAIN cache \ {key} |-> cache[k]]
    /\ UNCHANGED <<subnetZones, unavailable, SeqNum, ltCache, listed, listedMarks, callVars, probe, nodeClassVars, catalogVars>>

\* Create: from the call to the first launchInstance
CreateCall ==
    /\ pc = "idle"
    /\ listed # <<>>
    /\ \E m \in Machines, names \in CandidateNames :
          /\ machine' = m
          /\ instanceTypes' = selectInstanceTypes(m, SelectSeq(listed, LAMBDA it : it.Name \in names))
    /\ pc' = "launch"
    /\ UNCHANGED <<subnetZones, unavailable, SeqNum, cache, ltCache, listed, listedMarks,
                   launches, request, fleetOutput, id, err, getAttempts, described, instance, probe, nodeClassVars, catalogVars>>

\* Create: what follows the return of launchInstance call number n with (launchId, launchErr).
\* The machine and the instance types are read by launchInstance only and are dropped
\* from the state when no further launchInstance call follows.
AfterLaunch(n, launchId, launchErr) ==
    /\ id' = launchId
    /\ err' = launchErr
    /\ pc' = IF retryLaunch(n, launchErr) THEN "launch"
             ELSE IF launchErr # NoErr THEN "done"
             ELSE "get"
    /\ machine' = IF retryLaunch(n, launchErr) THEN machine ELSE NoMachine
    /\ instanceTypes' = IF retryLaunch(n, launchErr) THEN instanceTypes ELSE <<>>

\* launchInstance up to the CreateFleet call
LaunchInstance ==
    /\ pc = "launch"
    /\ launches' = launches + 1
    /\ fleetOutput' = NoOutput
    /\ LET capacityType == getCapacityType(machine, instanceTypes)
           zonalSubnets == ZonalSubnetsForLaunch
           launchTemplateConfigs == getLaunchTemplateConfigs(machine, instanceTypes, zonalSubnets, capacityType)
       IN \/ \* ZonalSubnetsForLaunch fails
             /\ AfterLaunch(launches + 1, NoId, GettingSubnetsErr)
             /\ request' = NoRequest
             /\ UNCHANGED ltCache
          \/ \* EnsureAll fails
             /\ AfterLaunch(launches + 1, NoId, GettingLaunchTemplatesErr)
             /\ request' = NoRequest
             /\ UNCHANGED ltCache
          \/ \* no launch template config has an override
             /\ launchTemplateConfigs = {}
             /\ ltCache' = ltCache \cup DOMAIN EnsureAll(instanceTypes, capacityType)
             /\ AfterLaunch(launches + 1, NoId, NoCapacityOfferingsErr)
             /\ request' = NoRequest
          \/ \* CreateFleet is called
             /\ launchTemplateConfigs # {}
             /\ ltCache' = ltCache \cup DOMAIN EnsureAll(instanceTypes, capacityType)
             /\ request' = [Type |-> "instant",
                            DefaultTargetCapacityType |-> capacityType,
                            TotalTargetCapacity |-> 1,
                            LaunchTemplateConfigs |-> launchTemplateConfigs]
             /\ pc' = "fleet"
             /\ UNCHANGED <<id, err, machine, instanceTypes>>
    /\ UNCHANGED <<subnetZones, unavailable, SeqNum, cache, listed, listedMarks,
                   getAttempts, described, instance, probe, nodeClassVars, catalogVars>>

\* launchInstance from the return of CreateFleet
CreateFleetReturns ==
    /\ pc = "fleet"
    /\ LET capacityType == request.DefaultTargetCapacityType
       IN \/ \* the request fails: launch template not found
             /\ fleetOutput' = [NoOutput EXCEPT !.err = LaunchTemplateNotFoundCode]
             /\ ltCache' = ltCache \ invalidated(request.LaunchTemplateConfigs)
             /\ AfterLaunch(launches, NoId, LaunchTemplateNotFoundCode)
             /\ UNCHANGED <<unavailable, SeqNum>>
          \/ \* the request fails otherwise
             /\ fleetOutput' = [NoOutput EXCEPT !.err = RequestLimitExceeded]
             /\ AfterLaunch(launches, NoId, RequestLimitExceeded)
             /\ UNCHANGED <<unavailable, SeqNum, ltCache>>
          \/ \* a response
             \E errors \in FleetErrorSets(request), launched \in BOOLEAN :
                LET out == [err |-> NoErr,
                            Instances |-> IF launched THEN <<newInstanceId(launches)>> ELSE <<>>,
                            Errors |-> errors,
                            received |-> TRUE]
                    res == launchResult(out)
                IN /\ SeqNum + markCalls(errors) <= MaxSeqNum
                   /\ fleetOutput' = out
                   /\ unavailable' = unavailable \cup markedKeys(errors, capacityType)
                   /\ SeqNum' = SeqNum + markCalls(errors)
                   /\ AfterLaunch(launches, res.id, res.err)
                   /\ UNCHANGED ltCache
    /\ request' = IF pc' = "launch" THEN request ELSE NoRequest
    /\ UNCHANGED <<subnetZones, cache, listed, listedMarks, launches,
                   getAttempts, described, instance, probe, nodeClassVars, catalogVars>>

\* Create: one attempt of retry.Do around Get.  The CreateFleet output is not read
\* again, and the DescribeInstances output of an attempt that is retried is discarded:
\* both are dropped from the state.
GetInstance ==
    /\ pc = "get"
    /\ \E d \in DescribeOutcomes(id) :
          LET got == Get(d)
          IN /\ getAttempts' = getAttempts + 1
             /\ IF got.err = NoErr
                THEN /\ instance' = got.instance
                     /\ described' = d
                     /\ pc' = "done"
                     /\ UNCHANGED err
                ELSE IF retryGet(getAttempts + 1, got.err)
                THEN UNCHANGED <<instance, described, pc, err>>
                ELSE /\ pc' = "done"
                     /\ described' = d
                     /\ err' = RetrievingNodeNameErr
                     /\ UNCHANGED instance
    /\ fleetOutput' = NoOutput
    /\ UNCHANGED <<subnetZones, unavailable, SeqNum, cache, ltCache, listed, listedMarks,
                   machine, instanceTypes, request, launches, id, probe, nodeClassVars, catalogVars>>

\* Create returns to its caller.
Return ==
    /\ pc = "done"
    /\ pc' = "idle"
    /\ machine' = NoMachine
    /\ instanceTypes' = <<>>
    /\ launches' = 0
    /\ request' = NoRequest
    /\ fleetOutput' = NoOutput
    /\ id' = NoId
    /\ err' = NoErr
    /\ getAttempts' = 0
    /\ described' = NoDescribe
    /\ instance' = NoInstance
    /\ UNCHANGED <<subnetZones, unavailable, SeqNum, cache, ltCache, listed, listedMarks, probe, nodeClassVars, catalogVars>>

Next ==
    \/ List
    \/ ExpireUnavailable
    \/ ExpireCache
    \/ CreateCall
    \/ LaunchInstance
    \/ CreateFleetReturns
    \/ GetInstance
    \/ Return

Spec == Init /\ [][Next]_vars

-----------------------------------------------------------------------------
(* The pure steps on their own: List on a cache miss, then the filter, order
   and truncation of Create and getCapacityType, applied to every candidate
   set and machine, under every small content of the unavailable-offerings
   cache. *)

\* The keys a launch can mark: the offerings that are available when nothing is marked.
MarkableKeys ==
    {UnavailableKey(name, zone, capacityType) :
        <<name, zone, capacityType>> \in
            {t \in InstanceTypeNames \X Zones \X CapacityTypes :
                /\ t[2] \in InstanceTypeOfferings[t[1]]
                /\ t[2] \in {"zone-a", "zone-b"}
                /\ OfferingPrice(t[1], t[2], t[3]).ok}}

InitPure ==
    /\ subnetZones = {"zone-a", "zone-b"}
    /\ unavailable \in {U \in SUBSET MarkableKeys : Cardinality(U) <= MaxMarked}
    /\ SeqNum = Cardinality(unavailable)
    /\ cache = <<>>
    /\ ltCache = {}
    /\ listed = <<>>
    /\ listedMarks = {}
    /\ pc = "idle"
    /\ machine = NoMachine
    /\ instanceTypes = <<>>
    /\ launches = 0
    /\ request = NoRequest
    /\ fleetOutput = NoOutput
    /\ id = NoId
    /\ err = NoErr
    /\ getAttempts = 0
    /\ described = NoDescribe
    /\ instance = NoInstance
    /\ probe = NoProbe
    /\ NodeClassIdle
    /\ CatalogIdle

pureVars == <<subnetZones, unavailable, SeqNum, cache, ltCache, listed, listedMarks, callVars,
              nodeClassVars, catalogVars>>

\* List on a cache miss: createOfferings for every instance type
ProbeList ==
    /\ probe.kind = "none"
    /\ \E order \in UsageClassOrders :
          probe' = [kind |-> "listed", instanceTypes |-> ListResult(order)]
    /\ UNCHANGED pureVars

\* Create up to launchInstance's getCapacityType, for a machine and a set of candidates
ProbeSelect ==
    /\ probe.kind = "listed"
    /\ \E m \in Machines, names \in (SUBSET InstanceTypeNames) \ {{}} :
          LET candidates == SelectSeq(probe.instanceTypes, LAMBDA it : it.Name \in names)
              selected == selectInstanceTypes(m, candidates)
          IN probe' = [kind |-> "selected", machine |-> m, names |-> names,
                       candidates |-> candidates,
                       generic |-> filterExoticInstanceTypes(candidates),
                       filtered |-> filterInstanceTypes(m, candidates),
                       instanceTypes |-> selected,
                       capacityType |-> getCapacityType(m, selected)]
    /\ UNCHANGED pureVars

\* The filter, order and truncation of Create applied to their own output
ProbeSelectAgain ==
    /\ probe.kind = "selected"
    /\ probe' = [kind |-> "reselected", machine |-> probe.machine, names |-> probe.names,
                 instanceTypes |-> probe.instanceTypes,
                 again |-> selectInstanceTypes(probe.machine, probe.instanceTypes)]
    /\ UNCHANGED pureVars

\* Delete of instance i-1 under every outcome of TerminateInstances and of the
\* DescribeInstances call that follows a failure
ProbeDelete ==
    /\ probe.kind = "none"
    /\ \E terminateErr \in {NoErr, InstanceNotFoundCode, RequestLimitExceeded},
          d \in DescribeOutcomes("i-1") :
          probe' = [kind |-> "deleted", terminateErr |-> terminateErr,
                    described |-> IF terminateErr = NoErr \/ IsNotFound(terminateErr)
                                  THEN NoDescribe ELSE d,
                    err |-> Delete(terminateErr, d)]
    /\ UNCHANGED pureVars

NextPure ==
    \/ ProbeDelete
    \/ ProbeList
    \/ ProbeSelect
    \/ ProbeSelectAgain

SpecPure == InitPure /\ [][NextPure]_vars

-----------------------------------------------------------------------------
(* Claims about the pure steps *)

\* C7: createOfferings builds exactly one offering for every instance type, zone and
\* supported capacity type, and the offering is available if and only if its price is
\* known, its zone is a subnet zone of the node class in which the type is offered, and
\* its triple is not in the unavailable-offerings cache.
C7_AvailableIffPricedZonedUnmarked ==
    probe.kind = "listed" =>
        \A i \in 1..Len(probe.instanceTypes) :
            LET it == probe.instanceTypes[i]
                info == InstanceTypeInfos[i]
            IN /\ it.Name = info.InstanceType
               /\ \A z \in Zones, ct \in info.SupportedUsageClasses \cap CapacityTypes :
                     Cardinality({j \in 1..Len(it.Offerings) :
                                     it.Offerings[j].Zone = z /\ it.Offerings[j].CapacityType = ct}) = 1
               /\ \A j \in 1..Len(it.Offerings) :
                     LET o == it.Offerings[j]
                         priceKnown == \/ o.CapacityType = "on-demand"
                                       \/ <<it.Name, o.Zone>> \in DOMAIN SpotPriceTable
                     IN o.Available <=>
                            /\ priceKnown
                            /\ o.Zone \in subnetZones
                            /\ o.Zone \in InstanceTypeOfferings[it.Name]
                            /\ <<o.CapacityType, it.Name, o.Zone>> \notin unavailable

\* C7 happens: an offering in a subnet zone where the type is offered, not marked, is
\* unavailable only because its price lookup failed.
C7_UnpricedOfferingListed ==
    /\ probe.kind = "listed"
    /\ \E i \in 1..Len(probe.instanceTypes) :
          \E j \in 1..Len(probe.instanceTypes[i].Offerings) :
             LET it == probe.instanceTypes[i]
                 o == it.Offerings[j]
             IN /\ o.CapacityType = "spot"
                /\ <<it.Name, o.Zone>> \notin DOMAIN SpotPriceTable
                /\ o.Zone \in subnetZones
                /\ o.Zone \in InstanceTypeOfferings[it.Name]
                /\ <<o.CapacityType, it.Name, o.Zone>> \notin unavailable
                /\ ~o.Available

\* C8: the capacity type of a launch is spot if and only if the machine's requirements
\* admit spot and some instance type handed to the launch has an available spot offering
\* in a zone the zone requirement admits; otherwise it is on-demand.
C8_SpotIffAdmittedAndOffered ==
    probe.kind = "selected" =>
        LET spotOffered ==
                \E i \in 1..Len(probe.instanceTypes) :
                    \E j \in 1..Len(probe.instanceTypes[i].Offerings) :
                        LET o == probe.instanceTypes[i].Offerings[j]
                        IN o.Available /\ o.CapacityType = "spot" /\ o.Zone \in probe.machine.zones
        IN IF "spot" \in probe.machine.capacityTypes /\ spotOffered
           THEN probe.capacityType = "spot"
           ELSE probe.capacityType = "on-demand"

\* C8 happens: spot is admitted and an instance type has an available spot offering, but
\* only in a zone the zone requirement does not admit, and the launch is on-demand.
C8_SpotOnlyOutsideAdmittedZones ==
    /\ probe.kind = "selected"
    /\ "spot" \in probe.machine.capacityTypes
    /\ \E i \in 1..Len(probe.instanceTypes) :
          \E j \in 1..Len(probe.instanceTypes[i].Offerings) :
             LET o == probe.instanceTypes[i].Offerings[j]
             IN o.Available /\ o.CapacityType = "spot" /\ o.Zone \notin probe.machine.zones
    /\ probe.capacityType = "on-demand"

\* C9: filterInstanceTypes, orderInstanceTypesByPrice and the truncation, applied to
\* their own output for the same machine, return the same list in the same order.
C9_SelectionIdempotent ==
    probe.kind = "reselected" => probe.again = probe.instanceTypes

\* C9 happens: a mixed-capacity launch for which the steps dropped candidates and kept a
\* full list, applied again.
C9_TruncatedMixedReselected ==
    /\ probe.kind = "reselected"
    /\ probe.machine.capacityTypes = CapacityTypes
    /\ Cardinality(probe.names) > Len(probe.instanceTypes)
    /\ Len(probe.instanceTypes) = MaxInstanceTypes

-----------------------------------------------------------------------------
(* Claims about Create *)

\* C1: within one Create call launchInstance runs at most twice, and a second run is
\* about to start only when the first CreateFleet failed with launch template not found
\* and no launch template named in the first request is left in the launch-template
\* cache; after a success or any other error no further launchInstance follows.
C1_SecondLaunchOnlyAfterInvalidation ==
    /\ launches <= 2
    /\ (pc = "launch" /\ launches > 0) =>
          /\ launches = 1
          /\ fleetOutput.err = "InvalidLaunchTemplateName.NotFoundException"
          /\ err = fleetOutput.err
          /\ request.LaunchTemplateConfigs # {}
          /\ \A c \in request.LaunchTemplateConfigs : c.LaunchTemplateName \notin ltCache

\* C1 happens: the second CreateFleet of a call is in flight, and a template that was
\* ensured for the call but not named in its request is still cached.
C1_SecondFleetCall ==
    /\ pc = "fleet"
    /\ launches = 2
    /\ \E name \in ltCache : \A c \in request.LaunchTemplateConfigs : c.LaunchTemplateName # name

\* C2: when the first launchInstance failed with launch template not found, Create goes
\* on with the instance id the second CreateFleet returned; when the second fails too,
\* Create ends with that error, no id and no instance, and never launches a third time.
C2_SecondAttemptDecides ==
    /\ ~(pc = "launch" /\ launches >= 2)
    /\ (pc = "get" /\ fleetOutput.received) =>
          /\ Len(fleetOutput.Instances) > 0
          /\ id = fleetOutput.Instances[1]
          /\ err = "nil"
    /\ (launches = 2 /\ pc \in {"get", "done"} /\ id # "nil") => id = "i-2"
    /\ (launches = 2 /\ pc = "done" /\ getAttempts = 0) =>
          /\ err # "nil"
          /\ id = "nil"
          /\ instance = NoInstance
          /\ fleetOutput.err # "nil" => err = fleetOutput.err

\* C2 happens: the second attempt failed with launch template not found as well and
\* Create has ended with that error.
C2_SecondAttemptFailedToo ==
    /\ pc = "done"
    /\ launches = 2
    /\ err = "InvalidLaunchTemplateName.NotFoundException"
    /\ instance = NoInstance

\* C3: when a CreateFleet response carries no launched instance, the error of
\* launchInstance is the InsufficientCapacity error if and only if every per-override
\* error of the response is a capacity error.
C3_InsufficientCapacityIffAllICE ==
    (fleetOutput.received /\ Len(fleetOutput.Instances) = 0) =>
        /\ id = "nil"
        /\ err # "nil"
        /\ (err = "InsufficientCapacityError: with fleet error(s)") <=>
              (\A e \in fleetOutput.Errors :
                  e.ErrorCode \in {"InsufficientInstanceCapacity", "Unavailable", "SpotMaxPriceTooLow"})

\* C3 happens: a response without an instance carries a capacity error and an error of
\* another kind.
C3_MixedErrorsNoInstance ==
    /\ fleetOutput.received
    /\ Len(fleetOutput.Instances) = 0
    /\ \E e \in fleetOutput.Errors : e.ErrorCode = "InsufficientInstanceCapacity"
    /\ \E e \in fleetOutput.Errors : e.ErrorCode = "InvalidFleetConfiguration"

\* C4: the step that receives a CreateFleet response, with or without an instance, adds
\* to the unavailable-offerings cache the (capacity type of the launch, instance type,
\* zone) of every capacity error of the response, and nothing else.
C4_ExactlyCapacityErrorsMarked ==
    [][(pc = "fleet" /\ fleetOutput'.received) =>
          unavailable' = unavailable \cup
              {<<request.DefaultTargetCapacityType, e.InstanceType, e.AvailabilityZone>> :
                  e \in {x \in fleetOutput'.Errors :
                            x.ErrorCode \in {"InsufficientInstanceCapacity", "Unavailable",
                                             "SpotMaxPriceTooLow"}}}]_vars

\* C4 happens: a response that launched an instance carried a capacity error, whose
\* triple is marked, and an error of another kind, whose triple is not.
C4_MarkedBesideLaunchedInstance ==
    /\ fleetOutput.received
    /\ Len(fleetOutput.Instances) = 1
    /\ \E e \in fleetOutput.Errors :
          /\ e.ErrorCode = "InsufficientInstanceCapacity"
          /\ \E ct \in CapacityTypes : <<ct, e.InstanceType, e.AvailabilityZone>> \in unavailable
    /\ \E e \in fleetOutput.Errors :
          /\ e.ErrorCode = "InvalidFleetConfiguration"
          /\ \A ct \in CapacityTypes : <<ct, e.InstanceType, e.AvailabilityZone>> \notin unavailable

\* C5 as amended: every triple that was marked when List returned the instance types the
\* caller holds is reported by them with available=false, and no CreateFleet request of
\* a Create call given those instance types has an override for that instance type in
\* that zone with that capacity type.
C5_MarkedWhenListedNotRequested ==
    /\ \A k \in listedMarks :
          \A i \in 1..Len(listed) : \A j \in 1..Len(listed[i].Offerings) :
             LET o == listed[i].Offerings[j]
             IN (listed[i].Name = k[2] /\ o.Zone = k[3] /\ o.CapacityType = k[1]) => ~o.Available
    /\ pc = "fleet" =>
          \A k \in listedMarks :
             \A c \in request.LaunchTemplateConfigs : \A j \in 1..Len(c.Overrides) :
                ~ /\ request.DefaultTargetCapacityType = k[1]
                  /\ c.Overrides[j].InstanceType = k[2]
                  /\ c.Overrides[j].AvailabilityZone = k[3]

\* C5 happens: a CreateFleet request is in flight for a launch whose capacity type,
\* instance types and zones cover a triple that is marked and was marked when the
\* caller listed.
C5_MarkedTripleCoveredByLaunch ==
    /\ pc = "fleet"
    /\ \E k \in listedMarks \cap unavailable :
          /\ request.DefaultTargetCapacityType = k[1]
          /\ k[3] \in machine.zones
          /\ \E i \in 1..Len(instanceTypes) : instanceTypes[i].Name = k[2]

\* C5 as stated: while a triple is marked, List reports it with available=false and no
\* CreateFleet request has an override for it.
C5_MarkedNeverRequested ==
    /\ \A k \in listedMarks :
          \A i \in 1..Len(listed) : \A j \in 1..Len(listed[i].Offerings) :
             LET o == listed[i].Offerings[j]
             IN (listed[i].Name = k[2] /\ o.Zone = k[3] /\ o.CapacityType = k[1]) => ~o.Available
    /\ pc = "fleet" =>
          \A k \in unavailable :
             \A c \in request.LaunchTemplateConfigs : \A j \in 1..Len(c.Overrides) :
                ~ /\ request.DefaultTargetCapacityType = k[1]
                  /\ c.Overrides[j].InstanceType = k[2]
                  /\ c.Overrides[j].AvailabilityZone = k[3]

\* C6 as stated: the instance types List returns report as available every offering
\* whose price is known, whose zone is a subnet zone in which the type is offered, and
\* whose triple was not marked (or no longer marked) when List returned.
C6_ListedAvailableOnceUnmarked ==
    \A i \in 1..Len(listed) : \A j \in 1..Len(listed[i].Offerings) :
        LET o == listed[i].Offerings[j]
        IN ( /\ o.CapacityType = "on-demand" \/ <<listed[i].Name, o.Zone>> \in DOMAIN SpotPriceTable
             /\ o.Zone \in subnetZones
             /\ o.Zone \in InstanceTypeOfferings[listed[i].Name]
             /\ <<o.CapacityType, listed[i].Name, o.Zone>> \notin listedMarks ) => o.Available

\* C10: Create describes the instance only after a launch returned an id and at most 6
\* times; the instance it returns is the single instance, with a PrivateDnsName, of the
\* last DescribeInstances output; it stops describing before the sixth attempt only
\* with an instance, and after six failed attempts it ends with an error and no instance.
C10_DescribeAtMostSixTimes ==
    /\ getAttempts <= 6
    /\ getAttempts > 0 => id # "nil"
    /\ pc = "get" => (getAttempts < 6 /\ instance = NoInstance)
    /\ instance # NoInstance =>
          /\ described.err = "nil"
          /\ Len(described.Instances) = 1
          /\ described.Instances[1].PrivateDnsName # ""
          /\ instance = described.Instances[1]
          /\ err = "nil"
    /\ (pc = "done" /\ getAttempts > 0 /\ instance = NoInstance) =>
          /\ getAttempts = 6
          /\ err # "nil"

\* C10 happens: the sixth describe found the instance without a PrivateDnsName, and
\* Create ended with an error and no instance.
C10_SixthAttemptWithoutName ==
    /\ pc = "done"
    /\ getAttempts = 6
    /\ Len(described.Instances) = 1
    /\ described.Instances[1].PrivateDnsName = ""
    /\ instance = NoInstance
    /\ err # "nil"


-----------------------------------------------------------------------------
(* The instance-profile provider on its own: Create and Delete calls for the
   node classes, in any order, from any state of their profiles in IAM, with
   an IAM failure injected at any step, and the expiry of cache entries. *)

InitProfile ==
    /\ subnetZones = {"zone-a", "zone-b"}
    /\ unavailable = {}
    /\ SeqNum = 0
    /\ cache = <<>>
    /\ ltCache = {}
    /\ listed = <<>>
    /\ listedMarks = {}
    /\ pc = "idle"
    /\ machine = NoMachine
    /\ instanceTypes = <<>>
    /\ launches = 0
    /\ request = NoRequest
    /\ fleetOutput = NoOutput
    /\ id = NoId
    /\ err = NoErr
    /\ getAttempts = 0
    /\ described = NoDescribe
    /\ instance = NoInstance
    /\ probe = NoProbe
    /\ iam \in [ProfileNames -> ProfileStates]
    /\ profileCache = {}
    /\ failedSince = {}
    /\ ipCall = NoCall
    /\ nodeClass = NewNodeClass
    /\ reconciled = NoCall
    /\ reconciles = 0
    /\ CatalogIdle

launchVars == <<subnetZones, unavailable, SeqNum, cache, ltCache, listed, listedMarks, callVars,
                probe>>

\* A call of DefaultProvider.Create
ProfileCreate ==
    /\ \E uid \in NodeClasses, fail \in FailPoints :
          LET name == InstanceProfileName(uid)
              r == DefaultProviderCreate(iam, profileCache, uid, fail)
          IN /\ fail <= Len(r.calls)
             /\ iam' = [iam EXCEPT ![name] = r.profile]
             /\ profileCache' = r.cache
             /\ failedSince' = IF r.err # NoErr THEN failedSince \cup {uid}
                               ELSE failedSince \ {uid}
             /\ ipCall' = [op |-> "Create", uid |-> uid, before |-> iam[name],
                           cachedBefore |-> uid \in profileCache,
                           repair |-> uid \in failedSince,
                           calls |-> r.calls, name |-> r.name, err |-> r.err,
                           cachedAfter |-> uid \in r.cache]
    /\ UNCHANGED <<launchVars, catalogVars, apiserver, nodeClass, reconciled, reconciles>>

\* A call of DefaultProvider.Delete
ProfileDelete ==
    /\ \E uid \in NodeClasses, fail \in FailPoints, gone \in BOOLEAN :
          LET name == InstanceProfileName(uid)
              r == DefaultProviderDelete(iam, profileCache, uid, fail, gone)
          IN /\ fail <= Len(r.calls)
             /\ gone => /\ Len(r.calls) > 1
                        /\ r.calls[Len(r.calls)] =
                              iamCall("DeleteInstanceProfile", "NoSuchEntity")
             /\ iam' = [iam EXCEPT ![name] = r.profile]
             /\ profileCache' = r.cache
             /\ ipCall' = [op |-> "Delete", uid |-> uid, before |-> iam[name],
                           cachedBefore |-> uid \in profileCache,
                           repair |-> uid \in failedSince,
                           calls |-> r.calls, name |-> r.name, err |-> r.err,
                           cachedAfter |-> uid \in r.cache]
    /\ UNCHANGED <<launchVars, catalogVars, apiserver, failedSince, nodeClass, reconciled, reconciles>>

\* The TTL of an entry of the instance-profile cache elapses
ExpireProfile ==
    /\ \E uid \in profileCache : profileCache' = profileCache \ {uid}
    /\ UNCHANGED <<launchVars, catalogVars, apiserver, iam, failedSince, ipCall, nodeClass, reconciled, reconciles>>

NextProfile ==
    \/ ProfileCreate
    \/ ProfileDelete
    \/ ExpireProfile

SpecProfile == InitProfile /\ [][NextProfile]_vars


-----------------------------------------------------------------------------
(* The status controller on its own: reconciles of one node class, one after
   the other, under every outcome of the providers the resolvers call and of
   the patches. *)

\* What the providers and the API server answer during one Reconcile
ReconcileInputs ==
    [finalizerPatch : {NoErr, "Conflict"},
     ami : {[value |-> <<"ami-1">>, res |-> 60, err |-> NoErr],
            [value |-> <<>>, res |-> 0, err |-> "getting amis"]},
     subnets : {[err |-> "describing subnets", subnets |-> {}],
                [err |-> NoErr, subnets |-> {}],
                [err |-> NoErr, subnets |-> EC2Subnets]},
     securityGroups : {[err |-> "describing security groups", groups |-> {}],
                       [err |-> NoErr, groups |-> {}],
                       [err |-> NoErr, groups |-> EC2SecurityGroups]},
     terms : BOOLEAN,
     instanceProfile : {[value |-> "profile", res |-> 0, err |-> NoErr]},
     readiness : {[value |-> "True", res |-> 10 * 60, err |-> NoErr],
                  [value |-> "False", res |-> 0, err |-> "not ready"]},
     statusPatch : {NoErr, "NotFound", "Conflict"}]

\* A call of Controller.Reconcile for the node class
Reconcile ==
    /\ reconciles < MaxReconciles
    /\ reconciles' = reconciles + 1
    /\ \E in \in ReconcileInputs :
          /\ reconciled' = ControllerReconcile(nodeClass, in)
          /\ in.finalizerPatch # NoErr => needsFinalizer(nodeClass)
          /\ in.statusPatch # NoErr =>
                reconcileOp("patch status", 0, in.statusPatch) \in Range(reconciled'.ops)
          /\ in.securityGroups.groups # {} => in.terms
          /\ nodeClass' = reconciled'.server
    /\ UNCHANGED <<launchVars, catalogVars, apiserver, iam, profileCache, failedSince, ipCall>>

NextStatus == Reconcile

SpecStatus == Init /\ [][NextStatus]_vars

-----------------------------------------------------------------------------
(* The raw data of the catalogue on its own: concurrent callers of List going
   through GetInstanceTypes, getInstanceTypeOfferings and getZones, while the
   data of EC2 changes and the entries of the cache expire.  A caller holding
   p.mu across an EC2 call is a state of its own (the call is in flight); the
   rest of List works on the result cache and is not part of these steps. *)

\* The result List builds on a miss, as the data it is built from: the
\* instance types, their offerings and the zones the caller holds
listResult(caller) ==
    [instanceTypes |-> caller.instanceTypes,
     instanceTypeOfferings |-> caller.instanceTypeOfferings,
     zones |-> caller.zones]

\* The results that can still be served.  The sequence numbers never decrease,
\* so a result filed under a lower number is never hit again: the model drops
\* it as soon as the number goes up instead of keeping it until it expires.
liveResults(results, typesSeqNum, offeringsSeqNum) ==
    [k \in {key \in DOMAIN results : key[1] >= typesSeqNum /\ key[2] >= offeringsSeqNum} |->
        results[k]]

catalogStep(op, c, outcome, value, previous) ==
    [op |-> op, caller |-> c, outcome |-> outcome, value |-> value, previous |-> previous]

\* GetInstanceTypes up to its EC2 call: p.mu.Lock(), then the cached entry is
\* returned (the deferred Unlock included) or DescribeInstanceTypesPages is called
GetInstanceTypes(c) ==
    /\ callers[c].pc = "GetInstanceTypes"
    /\ muFree
    /\ IF rawCache["types"] # {}
       THEN /\ callers' = [callers EXCEPT ![c].pc = "getInstanceTypeOfferings",
                                          ![c].instanceTypes = rawCache["types"]]
            /\ catalogCall' = catalogStep("GetInstanceTypes", c, "hit", rawCache["types"], fetched["types"])
            /\ UNCHANGED mu
       ELSE /\ mu' = c
            /\ callers' = [callers EXCEPT ![c].pc = "DescribeInstanceTypes"]
            /\ catalogCall' = catalogStep("GetInstanceTypes", c, "miss", {}, fetched["types"])
    /\ UNCHANGED <<rawCache, cm, instanceTypesSeqNum, instanceTypeOfferingsSeqNum, ec2,
                   fetched, fills, changes>>
    /\ UNCHANGED <<launchVars, nodeClassVars, listCache, seqData>>

\* DescribeInstanceTypesPages returns to GetInstanceTypes: an error is returned
\* to the caller of List; a result is monitored, cached and returned
DescribeInstanceTypesReturns(c) ==
    /\ callers[c].pc = "DescribeInstanceTypes"
    /\ \E ok \in BOOLEAN :
          IF ~ok
          THEN /\ callers' = [callers EXCEPT ![c] = callingList]
               /\ catalogCall' = catalogStep("GetInstanceTypes", c, "failed", {}, fetched["types"])
               /\ UNCHANGED <<rawCache, cm, instanceTypesSeqNum, fetched, fills, seqData>>
          ELSE /\ instanceTypesSeqNum' =
                      addedIfChanged(instanceTypesSeqNum, HasChanged(cm["types"], ec2.types))
               /\ seqData' = IF HasChanged(cm["types"], ec2.types)
                              THEN [seqData EXCEPT !.types = Append(@, ec2.types)]
                              ELSE seqData
               /\ cm' = [cm EXCEPT !["types"] = {ec2.types}]
               /\ rawCache' = [rawCache EXCEPT !["types"] = {ec2.types}]
               /\ callers' = [callers EXCEPT ![c].pc = "getInstanceTypeOfferings",
                                             ![c].instanceTypes = {ec2.types}]
               /\ catalogCall' = catalogStep("GetInstanceTypes", c, "refreshed",
                                             {ec2.types}, fetched["types"])
               /\ fetched' = [fetched EXCEPT !["types"] = {ec2.types}]
               /\ fills' = [fills EXCEPT !["types"] = @ + 1]
    /\ mu' = "free"
    /\ listCache' = liveResults(listCache, instanceTypesSeqNum', instanceTypeOfferingsSeqNum)
    /\ UNCHANGED <<instanceTypeOfferingsSeqNum, ec2, changes>>
    /\ UNCHANGED <<launchVars, nodeClassVars>>

\* getInstanceTypeOfferings up to its EC2 call
GetInstanceTypeOfferings(c) ==
    /\ callers[c].pc = "getInstanceTypeOfferings"
    /\ muFree
    /\ IF rawCache["offerings"] # {}
       THEN /\ callers' = [callers EXCEPT ![c].pc = "getZones",
                                          ![c].instanceTypeOfferings = rawCache["offerings"]]
            /\ catalogCall' = catalogStep("getInstanceTypeOfferings", c, "hit",
                                          rawCache["offerings"], fetched["offerings"])
            /\ UNCHANGED mu
       ELSE /\ mu' = c
            /\ callers' = [callers EXCEPT ![c].pc = "DescribeInstanceTypeOfferings"]
            /\ catalogCall' = catalogStep("getInstanceTypeOfferings", c, "miss", {},
                                          fetched["offerings"])
    /\ UNCHANGED <<rawCache, cm, instanceTypesSeqNum, instanceTypeOfferingsSeqNum, ec2,
                   fetched, fills, changes>>
    /\ UNCHANGED <<launchVars, nodeClassVars, listCache, seqData>>

\* DescribeInstanceTypeOfferingsPages returns to getInstanceTypeOfferings
DescribeInstanceTypeOfferingsReturns(c) ==
    /\ callers[c].pc = "DescribeInstanceTypeOfferings"
    /\ \E ok \in BOOLEAN :
          IF ~ok
          THEN /\ callers' = [callers EXCEPT ![c] = callingList]
               /\ catalogCall' = catalogStep("getInstanceTypeOfferings", c, "failed", {},
                                             fetched["offerings"])
               /\ UNCHANGED <<rawCache, cm, instanceTypeOfferingsSeqNum, fetched, fills, seqData>>
          ELSE /\ instanceTypeOfferingsSeqNum' =
                      addedIfChanged(instanceTypeOfferingsSeqNum,
                                     HasChanged(cm["offerings"], ec2.offerings))
               /\ seqData' = IF HasChanged(cm["offerings"], ec2.offerings)
                              THEN [seqData EXCEPT !.offerings = Append(@, ec2.offerings)]
                              ELSE seqData
               /\ cm' = [cm EXCEPT !["offerings"] = {ec2.offerings}]
               /\ rawCache' = [rawCache EXCEPT !["offerings"] = {ec2.offerings}]
               /\ callers' = [callers EXCEPT ![c].pc = "getZones",
                                             ![c].instanceTypeOfferings = {ec2.offerings}]
               /\ catalogCall' = catalogStep("getInstanceTypeOfferings", c, "refreshed",
                                             {ec2.offerings}, fetched["offerings"])
               /\ fetched' = [fetched EXCEPT !["offerings"] = {ec2.offerings}]
               /\ fills' = [fills EXCEPT !["offerings"] = @ + 1]
    /\ mu' = "free"
    /\ listCache' = liveResults(listCache, instanceTypesSeqNum, instanceTypeOfferingsSeqNum')
    /\ UNCHANGED <<instanceTypesSeqNum, ec2, changes>>
    /\ UNCHANGED <<launchVars, nodeClassVars>>

\* The zones of the offerings the caller holds: the union getZones builds
zonesOf(instanceTypeOfferings) ==
    UNION {UNION {offerings[name] : name \in DOMAIN offerings} :
              offerings \in instanceTypeOfferings}

\* getZones, whole: the cached zones, or the zones of the offerings, which it
\* monitors and caches; the caller then goes on to the key of the result
GetZones(c) ==
    /\ callers[c].pc = "getZones"
    /\ muFree
    /\ IF rawCache["zones"] # {}
       THEN /\ catalogCall' = catalogStep("getZones", c, "hit", rawCache["zones"], fetched["zones"])
            /\ callers' = [callers EXCEPT ![c].pc = "key", ![c].zones = rawCache["zones"]]
            /\ UNCHANGED <<rawCache, cm, fetched, fills>>
       ELSE LET zones == zonesOf(callers[c].instanceTypeOfferings)
            IN /\ callers' = [callers EXCEPT ![c].pc = "key", ![c].zones = {zones}]
               /\ cm' = [cm EXCEPT !["zones"] = {zones}]
               /\ rawCache' = [rawCache EXCEPT !["zones"] = {zones}]
               /\ catalogCall' = catalogStep("getZones", c, "refreshed", {zones}, fetched["zones"])
               /\ fetched' = [fetched EXCEPT !["zones"] = {zones}]
               /\ fills' = [fills EXCEPT !["zones"] = @ + 1]
    /\ UNCHANGED <<mu, instanceTypesSeqNum, instanceTypeOfferingsSeqNum, ec2, changes>>
    /\ UNCHANGED <<launchVars, nodeClassVars, listCache, seqData>>

\* List from the key to the lookup: the key is formatted from the sequence
\* numbers as they are now (the other parts of the key are the same for all
\* callers); a cached result is returned, otherwise the result is built from
\* the data the caller holds
ListLookup(c) ==
    /\ callers[c].pc = "key"
    /\ LET key == <<instanceTypesSeqNum, instanceTypeOfferingsSeqNum>>
       IN IF key \in DOMAIN listCache
          THEN /\ callers' = [callers EXCEPT ![c] = callingList]
               /\ catalogCall' = [op |-> "List", caller |-> c, outcome |-> "hit", key |-> key,
                                  value |-> listCache[key],
                                  held |-> listResult(callers[c])]
          ELSE /\ callers' = [callers EXCEPT ![c].pc = "SetDefault", ![c].key = key]
               /\ catalogCall' = [op |-> "List", caller |-> c, outcome |-> "miss", key |-> key]
    /\ UNCHANGED <<mu, rawCache, cm, instanceTypesSeqNum, instanceTypeOfferingsSeqNum, ec2,
                   fetched, fills, changes, listCache, seqData>>
    /\ UNCHANGED <<launchVars, nodeClassVars>>

\* List after a miss: p.cache.SetDefault(key, result) and the return
ListStore(c) ==
    /\ callers[c].pc = "SetDefault"
    /\ listCache' = liveResults([k \in DOMAIN listCache \cup {callers[c].key} |->
                                     IF k = callers[c].key THEN listResult(callers[c])
                                     ELSE listCache[k]],
                                 instanceTypesSeqNum, instanceTypeOfferingsSeqNum)
    /\ callers' = [callers EXCEPT ![c] = callingList]
    /\ catalogCall' = [op |-> "List", caller |-> c, outcome |-> "stored", key |-> callers[c].key,
                       value |-> listResult(callers[c])]
    /\ UNCHANGED <<mu, rawCache, cm, instanceTypesSeqNum, instanceTypeOfferingsSeqNum, ec2,
                   fetched, fills, changes, seqData>>
    /\ UNCHANGED <<launchVars, nodeClassVars>>

\* EC2 starts or stops offering an instance type, or a type in a zone
EC2Changes ==
    /\ changes < MaxCatalogChanges
    /\ \E types \in DescribedInstanceTypes, offerings \in DescribedOfferings :
          /\ (types # ec2.types) # (offerings # ec2.offerings)
          /\ ec2' = [types |-> types, offerings |-> offerings]
    /\ changes' = changes + 1
    /\ catalogCall' = catalogStep("EC2Changes", "", "", {}, {})
    /\ UNCHANGED <<mu, rawCache, cm, instanceTypesSeqNum, instanceTypeOfferingsSeqNum,
                   callers, fetched, fills>>
    /\ UNCHANGED <<launchVars, nodeClassVars, listCache, seqData>>

\* An entry of p.cache reaches its expiration: a raw entry, or a result
ExpireRaw ==
    /\ \/ /\ \E key \in RawKeys :
                /\ rawCache[key] # {}
                /\ rawCache' = [rawCache EXCEPT ![key] = {}]
                /\ fills' = [fills EXCEPT ![key] = 0]
          /\ UNCHANGED listCache
       \/ /\ \E key \in DOMAIN listCache :
                listCache' = [k \in DOMAIN listCache \ {key} |-> listCache[k]]
          /\ UNCHANGED <<rawCache, fills>>
    /\ catalogCall' = catalogStep("ExpireRaw", "", "", {}, {})
    /\ UNCHANGED <<mu, cm, instanceTypesSeqNum, instanceTypeOfferingsSeqNum, ec2,
                   callers, fetched, changes>>
    /\ UNCHANGED <<launchVars, nodeClassVars, seqData>>

NextCatalog ==
    \/ \E c \in Callers : GetInstanceTypes(c)
    \/ \E c \in Callers : DescribeInstanceTypesReturns(c)
    \/ \E c \in Callers : GetInstanceTypeOfferings(c)
    \/ \E c \in Callers : DescribeInstanceTypeOfferingsReturns(c)
    \/ \E c \in Callers : GetZones(c)
    \/ \E c \in Callers : ListLookup(c)
    \/ \E c \in Callers : ListStore(c)
    \/ EC2Changes
    \/ ExpireRaw

SpecCatalog == Init /\ [][NextCatalog]_vars

-----------------------------------------------------------------------------
(* NewInstanceType on its own: the resources of each instance type of the
   catalogue under each kubelet configuration, AMI family and reserved-ENIs
   option *)

ProbeNewInstanceType ==
    /\ probe.kind = "none"
    /\ \E i \in 1..Len(InstanceTypeInfos), flags \in FeatureFlags,
          maxPods \in {{}, {1}, {20}, {110}}, podsPerCore \in {{}, {0}, {1}, {10}},
          reservedENIs \in 0..MaxReservedENIs, order \in ListOrders :
          LET info == InstanceTypeInfos[i]
              offerings == createOfferings(info, InstanceTypeOfferings[info.InstanceType],
                                           getZones(InstanceTypeOfferings), subnetZones, order)
          IN probe' = [kind |-> "NewInstanceType", info |-> info, flags |-> flags,
                       maxPods |-> maxPods, podsPerCore |-> podsPerCore,
                       reservedENIs |-> reservedENIs,
                       instanceType |-> instanceTypeResources(info, offerings, flags, maxPods,
                                                              podsPerCore, reservedENIs)]
    /\ UNCHANGED <<subnetZones, unavailable, SeqNum, cache, ltCache, listed, listedMarks,
                   callVars, nodeClassVars, catalogVars>>

\* Instance types of each kind filterExoticInstanceTypes tells apart: two
\* generic ones, a metal one and one with each of the accelerator resources
SpecialInstanceTypes ==
    LET it(name, size, accelerator) ==
            [Name |-> name, Size |-> size, Arch |-> "amd64", Offerings |-> <<>>,
             Accelerators |-> [r \in {"NvidiaGPU", "AMDGPU", "Neuron", "Gaudi"} |->
                                  IF r = accelerator THEN 1 ELSE 0]]
    IN << it("c5.large", "large", ""), it("m5.metal", "metal", ""),
          it("g4dn.xlarge", "xlarge", "NvidiaGPU"), it("g4ad.xlarge", "xlarge", "AMDGPU"),
          it("inf1.xlarge", "xlarge", "Neuron"), it("dl1.24xlarge", "24xlarge", "Gaudi"),
          it("m5.large", "large", "") >>

\* filterExoticInstanceTypes on its own, for every choice of candidates
ProbeFilterExotic ==
    /\ probe.kind = "none"
    /\ \E chosen \in SUBSET (1..Len(SpecialInstanceTypes)) :
          LET candidates == SelectSeq(SpecialInstanceTypes,
                                      LAMBDA it : \E i \in chosen : SpecialInstanceTypes[i] = it)
          IN probe' = [kind |-> "filterExotic", candidates |-> candidates,
                       generic |-> filterExoticInstanceTypes(candidates)]
    /\ UNCHANGED <<subnetZones, unavailable, SeqNum, cache, ltCache, listed, listedMarks,
                   callVars, nodeClassVars, catalogVars>>

\* The block-device mappings of a node class: up to two mappings with distinct
\* device names, at most one of them the root volume (the admission of a
\* node class rejects more than one), each with or without a volume size
BlockDeviceMappings ==
    LET mappings == [DeviceName : {"/dev/xvda", "/dev/xvdb"}, RootVolume : BOOLEAN,
                     VolumeSize : {{}, {[n |-> 30, unit |-> "Gi"]}, {[n |-> 40, unit |-> "Gi"]}}]
    IN {<<>>} \cup {<<bdm>> : bdm \in mappings}
         \cup {pair \in mappings \X mappings :
                   /\ pair[1].DeviceName # pair[2].DeviceName
                   /\ ~(pair[1].RootVolume /\ pair[2].RootVolume)
                   /\ pair[1].VolumeSize # pair[2].VolumeSize \/ pair[2].VolumeSize = {}}

\* ephemeralStorage for every family, instance store, policy and mappings
ProbeEphemeralStorage ==
    /\ probe.kind = "none"
    /\ \E totalSizeInGB \in {{}, {900}}, amiFamily \in AMIFamilies,
          blockDeviceMappings \in BlockDeviceMappings,
          instanceStorePolicy \in {{}, {"RAID0"}} :
          probe' = [kind |-> "ephemeralStorage", totalSizeInGB |-> totalSizeInGB,
                    amiFamily |-> amiFamily, blockDeviceMappings |-> blockDeviceMappings,
                    instanceStorePolicy |-> instanceStorePolicy,
                    storage |-> ephemeralStorage(totalSizeInGB, amiFamily, blockDeviceMappings,
                                                 instanceStorePolicy)]
    /\ UNCHANGED <<subnetZones, unavailable, SeqNum, cache, ltCache, listed, listedMarks,
                   callVars, nodeClassVars, catalogVars>>

\* The evictionHard and evictionSoft maps of a kubelet configuration: nil, or
\* a map with or without memory.available and nodefs.available
EvictionSignals ==
    LET values(capacitySignals) ==
            {[percent |-> p] : p \in {1, 5, 100}} \cup {[quantity |-> q] : q \in capacitySignals}
        memorySignals == {[s \in {"memory.available"} |-> v] : v \in values({50 * Mi, 200 * Mi})}
        nodefsSignals == {[s \in {"nodefs.available"} |-> v] : v \in {[percent |-> 15]}}
    IN {{}} \cup {{m} : m \in {<<>>} \cup memorySignals \cup nodefsSignals
                                   \cup {a @@ b : a \in memorySignals, b \in nodefsSignals}}

\* evictionThreshold for an instance type with 4000Mi of memory and 20Gi of
\* storage under every pair of signal maps and both kinds of family
ProbeEvictionThreshold ==
    /\ probe.kind = "none"
    /\ \E evictionSoftEnabled \in BOOLEAN, evictionHard \in EvictionSignals,
          evictionSoft \in EvictionSignals :
          probe' = [kind |-> "evictionThreshold", memory |-> 4000 * Mi, storage |-> 20 * 1024 * Mi,
                    evictionSoftEnabled |-> evictionSoftEnabled,
                    evictionHard |-> evictionHard, evictionSoft |-> evictionSoft,
                    threshold |-> evictionThreshold(4000 * Mi, 20 * 1024 * Mi, evictionSoftEnabled,
                                                    evictionHard, evictionSoft)]
    /\ UNCHANGED <<subnetZones, unavailable, SeqNum, cache, ltCache, listed, listedMarks,
                   callVars, nodeClassVars, catalogVars>>

NextResources ==
    \/ ProbeEvictionThreshold
    \/ ProbeNewInstanceType
    \/ ProbeFilterExotic
    \/ ProbeEphemeralStorage

SpecResources == Init /\ [][NextResources]_vars

-----------------------------------------------------------------------------
(* Admission of EC2NodeClass objects: what the validation suite creates *)

\* The specs the validation suite creates: the role of test.BetaEC2NodeClass
\* or none (""), an instance profile or none ({} is the nil pointer)
NodeClassSpecs ==
    [Role : {"", "test-role", "test-role2"},
     InstanceProfile : {{}, {"test-instance-profile"}}]

ValidationRuleAtLeastOne(spec) == spec.Role # "" \/ spec.InstanceProfile # {}

\* The validation rule of the EC2NodeClass spec: exactly one of role and
\* instanceProfile is set
ValidationRule(spec) ==
    \/ spec.Role # "" /\ spec.InstanceProfile = {}
    \/ spec.Role = "" /\ spec.InstanceProfile # {}

\* env.Client.Create(ctx, nc): validation, then storage under the name
CreateNodeClass ==
    /\ \E name \in NodeClasses, spec \in NodeClassSpecs :
          LET outcome == IF ~ValidationRule(spec) THEN "Invalid"
                         ELSE IF apiserver[name] # {} THEN "AlreadyExists"
                         ELSE "Created"
          IN /\ apiserver' = IF outcome = "Created"
                             THEN [apiserver EXCEPT ![name] = {spec}]
                             ELSE apiserver
             /\ probe' = [kind |-> "Create", name |-> name, spec |-> spec,
                          outcome |-> outcome]
    /\ UNCHANGED <<subnetZones, unavailable, SeqNum, cache, ltCache, listed, listedMarks,
                   callVars, catalogVars>>
    /\ UNCHANGED <<iam, profileCache, failedSince, ipCall, nodeClass, reconciled, reconciles>>

SpecAdmission == Init /\ [][CreateNodeClass]_vars

-----------------------------------------------------------------------------
(* Claims about the instance-profile provider *)

\* The profile of a node class in IAM is as the resolver wants it: it exists,
\* carries the cluster tag and has exactly one role, the role of the node class
profileReady(uid) ==
    LET profile == iam[InstanceProfileName(uid)]
    IN /\ profile.exists
       /\ profile.tagged
       /\ profile.Roles = <<InstanceProfileRole(uid)>>

\* C11: whenever Create returns success for a node class, after any sequence of
\* Create and Delete calls and from any state of IAM, the instance profile of
\* the node class exists in IAM, carries the cluster tag and has exactly one
\* role attached, the role of the node class.
C11_SuccessMeansProfileReady ==
    (ipCall.op = "Create" /\ ipCall.err = NoErr) => profileReady(ipCall.uid)


\* C12: after any Create that returns success the UID of the node class is in
\* the instance-profile cache, and a Create that finds the UID in the cache
\* returns the profile name without any IAM call.
C12_SuccessCachedAndServedFromCache ==
    /\ (ipCall.op = "Create" /\ ipCall.err = NoErr) => ipCall.cachedAfter
    /\ (ipCall.op = "Create" /\ ipCall.cachedBefore) =>
          /\ ipCall.calls = <<>>
          /\ ipCall.err = NoErr
          /\ ipCall.name = InstanceProfileName(ipCall.uid)


\* C13: whenever an IAM call made by Create or by Delete for a node class
\* returns an error (other than not-found, which both calls expect), the
\* instance-profile cache holds no entry for the UID of the node class when the
\* call returns.
C13_NoCacheEntryAfterIAMError ==
    (/\ ipCall.op \in {"Create", "Delete"}
     /\ \E i \in 1..Len(ipCall.calls) : ipCall.calls[i].err \notin {NoErr, "NoSuchEntity"})
        => ~ipCall.cachedAfter


\* C14: Delete removes the attached role, if there is one, before it deletes
\* the profile; after a successful Delete the profile does not exist in IAM;
\* when the profile is already absent Delete returns success having made no
\* call but the get; when removing the role fails the profile is not deleted
\* and Delete returns the error.
C14_DeleteDetachesThenDeletes ==
    ipCall.op = "Delete" =>
        LET calls == ipCall.calls
            profile == iam[InstanceProfileName(ipCall.uid)]
            removeFailed == \E i \in 1..Len(calls) :
                                /\ calls[i].api = "RemoveRoleFromInstanceProfile"
                                /\ calls[i].err # NoErr
        IN /\ \A i \in 1..Len(calls) :
                 (calls[i].api = "DeleteInstanceProfile" /\ ipCall.before.Roles # <<>>)
                    => \E j \in 1..(i - 1) :
                          calls[j] = iamCall("RemoveRoleFromInstanceProfile", NoErr)
           /\ ipCall.err = NoErr => ~profile.exists
           /\ calls[1] = iamCall("GetInstanceProfile", "NoSuchEntity")
                 => ipCall.err = NoErr /\ Len(calls) = 1 /\ ~profile.exists
           /\ removeFailed =>
                 /\ ipCall.err # NoErr
                 /\ \A i \in 1..Len(calls) : calls[i].api # "DeleteInstanceProfile"
                 /\ profile = ipCall.before

\* A Delete that detached the role and then deleted the profile
C14_RoleDetachedProfileDeleted ==
    /\ ipCall.op = "Delete"
    /\ ipCall.before.Roles # <<>>
    /\ ipCall.err = NoErr
    /\ Len(ipCall.calls) = 3
    /\ ipCall.calls[3] = iamCall("DeleteInstanceProfile", NoErr)


\* C15: after a Create for a node class has failed at one of its IAM steps, the
\* cache holds no entry for the node class until a Create for it succeeds, and
\* the next Create for it during which no IAM call fails ends with the profile
\* existing in IAM with exactly the role of the node class attached.
C15_FailedCreateRepairedByNext ==
    /\ \A uid \in failedSince : uid \notin profileCache
    /\ (ipCall.op = "Create" /\ ipCall.repair /\ ipCall.err = NoErr) =>
          LET profile == iam[InstanceProfileName(ipCall.uid)]
          IN /\ ~ipCall.cachedBefore
             /\ profile.exists
             /\ profile.Roles = <<InstanceProfileRole(ipCall.uid)>>

\* A Create that followed a failed one, found the profile without a role and
\* attached the role
C15_PartialProfileRepaired ==
    /\ ipCall.op = "Create"
    /\ ipCall.repair
    /\ ipCall.err = NoErr
    /\ ipCall.before.exists
    /\ ipCall.before.Roles = <<>>
    /\ ipCall.calls[Len(ipCall.calls)] = iamCall("AddRoleToInstanceProfile", NoErr)


-----------------------------------------------------------------------------
(* Claims about the node-class status controller *)

\* The last Reconcile got past the finalizer step
pastFinalizer ==
    /\ reconciled.op = "Reconcile"
    /\ reconciled.object.finalizer \/ reconciled.ops[1] = reconcileOp("patch finalizer", 0, NoErr)

\* The resolver calls of the last Reconcile, in order
resolverCalls ==
    SelectSeq(reconciled.ops, LAMBDA o : o.op \notin {"patch finalizer", "patch status"})

\* C16: in every Reconcile that gets past the finalizer step each of the five
\* resolvers runs exactly once, in the order AMI, subnet, security-group,
\* instance-profile, readiness, whatever errors the earlier resolvers return.
C16_FiveResolversInOrder ==
    pastFinalizer =>
        /\ Len(resolverCalls) = 5
        /\ resolverCalls[1].op = "ami"
        /\ resolverCalls[2].op = "subnet"
        /\ resolverCalls[3].op = "securitygroup"
        /\ resolverCalls[4].op = "instanceprofile"
        /\ resolverCalls[5].op = "readiness"

\* A Reconcile whose AMI and subnet resolvers both failed and whose readiness
\* resolver ran nevertheless
C16_LaterResolversRanAfterErrors ==
    /\ pastFinalizer
    /\ Len(resolverCalls) = 5
    /\ resolverCalls[1].err # NoErr
    /\ resolverCalls[2].err # NoErr
    /\ resolverCalls[5].op = "readiness"


\* The errors the resolvers of the last Reconcile returned, in order
resolverErrors ==
    LET failed == SelectSeq(resolverCalls, LAMBDA o : o.err # NoErr)
    IN [i \in 1..Len(failed) |-> failed[i].err]

\* The smallest requeue delay a resolver of the last Reconcile asked for (0: none did)
minResolverDelay ==
    LET delays == {resolverCalls[i].res : i \in 1..Len(resolverCalls)} \ {0}
    IN IF delays = {} THEN 0 ELSE CHOOSE d \in delays : \A other \in delays : d <= other

C18_FinalizerFirst ==
    reconciled.op = "Reconcile" =>
        LET ops == reconciled.ops
        IN /\ \A i \in 2..Len(ops) : ops[i].op # "patch finalizer"
           /\ reconciled.object.finalizer => ops[1].op # "patch finalizer"
           /\ ~reconciled.object.finalizer =>
                 /\ ops[1].op = "patch finalizer"
                 /\ IF ops[1].err = NoErr
                    THEN reconciled.server.finalizer /\ Len(ops) > 1
                    ELSE /\ Len(ops) = 1
                         /\ reconciled.errs = <<ops[1].err>>
                         /\ reconciled.server = reconciled.object

\* A Reconcile whose finalizer patch failed: the stored node class is still
\* without the finalizer
C18_FinalizerPatchFailed ==
    /\ reconciled.op = "Reconcile"
    /\ ~reconciled.object.finalizer
    /\ reconciled.ops[1] = reconcileOp("patch finalizer", 0, "Conflict")
    /\ ~nodeClass.finalizer


\* C19: a Reconcile patches the status only if the node class differs, after
\* the resolvers ran, from the copy taken just before them (the node class
\* read, with the finalizer); a Reconcile whose resolvers reproduce the stored
\* status writes nothing; a not-found error of the status patch is not among
\* the errors Reconcile returns.
C19_StatusPatchedOnlyWhenChanged ==
    pastFinalizer =>
        LET ops == reconciled.ops
            last == ops[Len(ops)]
            same == reconciled.nodeClass.Status = reconciled.object.Status
        IN /\ \A i \in 1..(Len(ops) - 1) : ops[i].op # "patch status"
           /\ last.op = "patch status" => ~same
           /\ same => nodeClass.Status = reconciled.object.Status
           /\ last = reconcileOp("patch status", 0, "NotFound") =>
                 reconciled.errs = resolverErrors

\* A Reconcile of a node class with a resolved status whose resolvers
\* reproduced that status, and which made no patch
C19_StatusReproducedNoPatch ==
    /\ pastFinalizer
    /\ reconciled.object.Status.Subnets # <<>>
    /\ reconciled.nodeClass.Status = reconciled.object.Status
    /\ Len(reconciled.ops) = 5


\* C20: when the subnet provider lists no subnet for the node class the subnet
\* resolver returns an error with no requeue delay and clears the subnets of
\* the node class status; when it lists at least one the resolver returns no
\* error and a requeue delay of 5 minutes.
C20_NoSubnetsIsAnError ==
    pastFinalizer =>
        LET out == reconciled.in.subnets
            call == resolverCalls[2]
        IN /\ call.op = "subnet"
           /\ (out.err = NoErr /\ out.subnets = {}) =>
                 /\ call.err # NoErr
                 /\ call.res = 0
                 /\ reconciled.nodeClass.Status.Subnets = <<>>
           /\ (out.err = NoErr /\ out.subnets # {}) =>
                 /\ call.err = NoErr
                 /\ call.res = 5 * 60
                 /\ Len(reconciled.nodeClass.Status.Subnets) = Cardinality(out.subnets)

\* A Reconcile of a node class with subnets in its status during which no
\* subnet was found: the subnets of the status were cleared
C20_StoredSubnetsCleared ==
    /\ pastFinalizer
    /\ reconciled.object.Status.Subnets # <<>>
    /\ reconciled.in.subnets = [err |-> NoErr, subnets |-> {}]
    /\ reconciled.nodeClass.Status.Subnets = <<>>
    /\ resolverCalls[2].err # NoErr

\* C21: when the subnet provider lists no subnet during a status reconcile the
\* reconcile returns an error and the condition SubnetsReady of the node class
\* is set to False.
C21_NoSubnetsSetsSubnetsReadyFalse ==
    (pastFinalizer /\ reconciled.in.subnets = [err |-> NoErr, subnets |-> {}]) =>
        /\ reconciled.errs # <<>>
        /\ reconciled.nodeClass.Status.SubnetsReady = "False"

\* C21, as the code has it: when the subnet provider lists no subnet the
\* reconcile returns the resolver's error with an empty result, the later
\* resolvers still run, and the subnet resolver writes no condition: the
\* condition SubnetsReady is what it was before the reconcile.
C21_NoSubnetsIsAnErrorNotACondition ==
    (pastFinalizer /\ reconciled.in.subnets = [err |-> NoErr, subnets |-> {}]) =>
        /\ "no subnets exist given constraints" \in
               {reconciled.errs[i] : i \in 1..Len(reconciled.errs)}
        /\ reconciled.res = 0
        /\ Len(resolverCalls) = 5
        /\ reconciled.nodeClass.Status.SubnetsReady = reconciled.object.Status.SubnetsReady

\* A Reconcile whose only failure is the subnet resolver finding no subnet:
\* an error returned, SubnetsReady not False
C21_OnlySubnetsMissing ==
    /\ pastFinalizer
    /\ reconciled.in.subnets = [err |-> NoErr, subnets |-> {}]
    /\ reconciled.errs = <<"no subnets exist given constraints">>
    /\ resolverCalls[3].op = "securitygroup" /\ resolverCalls[3].err = NoErr
    /\ reconciled.nodeClass.Status.SubnetsReady # "False"

\* The place of a group id in the lexicographic order of the group ids
groupIdRank(groupId) == (CHOOSE g \in EC2SecurityGroups : g.GroupId = groupId).rank

\* C22: when the node class has security-group selector terms and the provider
\* lists no security group, the security-group resolver returns no error,
\* clears the security groups of the status and sets SecurityGroupsReady to
\* False; when the provider lists at least one, the status lists exactly those
\* groups in ascending group-id order and SecurityGroupsReady is True.
C22_SecurityGroupsReadyFollowsMatches ==
    pastFinalizer =>
        LET out == reconciled.in.securityGroups
            call == resolverCalls[3]
            status == reconciled.nodeClass.Status
        IN /\ call.op = "securitygroup"
           /\ (out.err = NoErr /\ out.groups = {} /\ reconciled.in.terms) =>
                 /\ call.err = NoErr
                 /\ status.SecurityGroups = <<>>
                 /\ status.SecurityGroupsReady = "False"
           /\ (out.err = NoErr /\ out.groups # {}) =>
                 /\ call.err = NoErr
                 /\ Len(status.SecurityGroups) = Cardinality(out.groups)
                 /\ {[GroupId |-> g.GroupId, GroupName |-> g.GroupName] : g \in out.groups}
                       = {[GroupId |-> status.SecurityGroups[i].ID,
                           GroupName |-> status.SecurityGroups[i].Name] :
                              i \in 1..Len(status.SecurityGroups)}
                 /\ \A i, j \in 1..Len(status.SecurityGroups) :
                        i < j => groupIdRank(status.SecurityGroups[i].ID)
                                   < groupIdRank(status.SecurityGroups[j].ID)
                 /\ status.SecurityGroupsReady = "True"

\* A node class whose status listed sg-1 before sg-2 with SecurityGroupsReady
\* True, reconciled again when its selector terms match nothing: the groups
\* are cleared and the condition is False, without an error of the resolver
C22_MatchedThenUnmatched ==
    /\ pastFinalizer
    /\ Len(reconciled.object.Status.SecurityGroups) = 2
    /\ reconciled.object.Status.SecurityGroups[1].ID = "sg-1"
    /\ reconciled.object.Status.SecurityGroupsReady = "True"
    /\ reconciled.in.securityGroups = [err |-> NoErr, groups |-> {}]
    /\ reconciled.in.terms
    /\ resolverCalls[3].err = NoErr
    /\ reconciled.nodeClass.Status.SecurityGroups = <<>>
    /\ reconciled.nodeClass.Status.SecurityGroupsReady = "False"

-----------------------------------------------------------------------------
(* Claims about the raw data of the instance-type catalogue *)

\* The EC2 calls of the catalogue that are in flight
inFlight ==
    {c \in Callers : callers[c].pc \in {"DescribeInstanceTypes", "DescribeInstanceTypeOfferings"}}

\* The step just taken fetched data of this kind that differs from the data
\* fetched before it (or was the first fetch of the kind)
refreshedWithNewData(op) ==
    /\ catalogCall'.op = op
    /\ catalogCall'.outcome = "refreshed"
    /\ catalogCall'.value # catalogCall'.previous

C24_OneFetchAtATime ==
    /\ Cardinality(inFlight) <= 1
    /\ \A key \in RawKeys : fills[key] = IF rawCache[key] = {} THEN 0 ELSE 1

\* Both callers are in List with the instance types absent from the cache:
\* one holds the mutex with its DescribeInstanceTypes call in flight, the
\* other is at the Lock of GetInstanceTypes
C24_SecondCallerWaits ==
    /\ callers["c1"].pc = "DescribeInstanceTypes"
    /\ callers["c2"].pc = "GetInstanceTypes"
    /\ mu = "c1"
    /\ rawCache["types"] = {}
    /\ fills["offerings"] = 1

-----------------------------------------------------------------------------
(* Claims about the resources of the instance types *)

\* C25: every instance type NewInstanceType produces, under every kubelet
\* configuration (maxPods, podsPerCore), AMI family and reserved-ENIs option,
\* has requirements, a cpu capacity above 0 and a pods capacity above 0.
C25_RequirementsCpuAndPodsPositive ==
    probe.kind = "NewInstanceType" =>
        /\ DOMAIN probe.instanceType.Requirements # {}
        /\ probe.instanceType.Capacity.cpu > 0
        /\ probe.instanceType.Capacity.pods > 0

-----------------------------------------------------------------------------
(* Claims about the admission of node classes *)

\* Exactly one of spec.role and spec.instanceProfile is set
exactlyOneOfRoleAndProfile(spec) == (spec.Role # "") # (spec.InstanceProfile # {})

\* C26: the creation of a node class is accepted only if exactly one of
\* spec.role and spec.instanceProfile is set (both set: rejected; neither set:
\* rejected), so every node class the API server stores has exactly one.
C26_ExactlyOneOfRoleAndProfile ==
    /\ probe.kind = "Create" =>
          /\ probe.outcome = "Created" => exactlyOneOfRoleAndProfile(probe.spec)
          /\ ~exactlyOneOfRoleAndProfile(probe.spec) => probe.outcome = "Invalid"
    /\ \A name \in NodeClasses :
          \A spec \in apiserver[name] : exactlyOneOfRoleAndProfile(spec)

\* A node class with only an instance profile is stored, and the creation of
\* one with both a role and an instance profile has just been rejected
C26_BothRejected ==
    /\ apiserver["uid-1"] = {[Role |-> "", InstanceProfile |-> {"test-instance-profile"}]}
    /\ probe.kind = "Create"
    /\ probe.spec = [Role |-> "test-role", InstanceProfile |-> {"test-instance-profile"}]
    /\ probe.outcome = "Invalid"

-----------------------------------------------------------------------------
(* Claims about the CreateFleet request *)

\* The overrides of all launch template configs of the request in flight
requestOverrides ==
    UNION {Range(config.Overrides) : config \in request.LaunchTemplateConfigs}

\* The number of overrides of a set of launch template configs
RECURSIVE overrideCount(_)
overrideCount(configs) ==
    IF configs = {} THEN 0
    ELSE LET config == CHOOSE c \in configs : TRUE
         IN Len(config.Overrides) + overrideCount(configs \ {config})

\* The offerings of the candidates of the call that are available, of the
\* capacity type of the request, in a zone the machine admits and in which the
\* node class has a launch subnet, each as the override it stands for
launchableOfferings ==
    UNION {{[InstanceType |-> instanceTypes[i].Name,
             SubnetId |-> ZonalSubnetsForLaunch[o.Zone].SubnetId,
             AvailabilityZone |-> o.Zone] :
               o \in {of \in Range(instanceTypes[i].Offerings) :
                         /\ of.Available
                         /\ of.CapacityType = request.DefaultTargetCapacityType
                         /\ of.Zone \in machine.zones
                         /\ of.Zone \in DOMAIN ZonalSubnetsForLaunch}} :
           i \in 1..Len(instanceTypes)}

\* C27: the overrides of a CreateFleet request are exactly one override
\* (instance type, launch subnet of the zone, zone) for each available offering
\* of a candidate whose capacity type is the one of the request, whose zone the
\* zone requirement admits and whose zone has a launch subnet; there is no
\* other override, so none for an unavailable offering.
C27_OverridesAreAvailableOfferings ==
    pc = "fleet" =>
        /\ requestOverrides = launchableOfferings
        /\ overrideCount(request.LaunchTemplateConfigs) = Cardinality(launchableOfferings)

\* A request in flight for a machine restricted to zone-b, while the
\* candidates have an available offering of the capacity type of the request
\* in zone-a and an unavailable one in zone-b: neither is among the overrides
C27_RequestLeavesOfferingsOut ==
    /\ pc = "fleet"
    /\ machine.zones = {"zone-b"}
    /\ requestOverrides # {}
    /\ \E i, j \in 1..Len(instanceTypes) :
          \E of \in Range(instanceTypes[i].Offerings), other \in Range(instanceTypes[j].Offerings) :
             /\ ~of.Available
             /\ of.Zone = "zone-b"
             /\ of.CapacityType = request.DefaultTargetCapacityType
             /\ other.Available
             /\ other.Zone = "zone-a"
             /\ other.CapacityType = request.DefaultTargetCapacityType

-----------------------------------------------------------------------------
(* Claims about the candidates handed to the launch *)

\* The prices of the available offerings of the type that the machine's
\* requirements are compatible with
compatiblePrices(it, m) ==
    {o.Price : o \in {of \in Range(it.Offerings) :
                         /\ of.Available
                         /\ of.Zone \in m.zones
                         /\ of.CapacityType \in m.capacityTypes}}

\* The least of a non-empty set of prices
leastPrice(prices) == CHOOSE p \in prices : \A q \in prices : p <= q

\* The order of the claim: by the price of the cheapest compatible available
\* offering, the types without one last, equal prices by descending name
orderedBefore(a, b, m) ==
    LET pa == compatiblePrices(a, m)
        pb == compatiblePrices(b, m)
        samePrice == \/ pa = {} /\ pb = {}
                     \/ pa # {} /\ pb # {} /\ leastPrice(pa) = leastPrice(pb)
    IN \/ pa # {} /\ pb = {}
       \/ pa # {} /\ pb # {} /\ leastPrice(pa) < leastPrice(pb)
       \/ samePrice /\ NameRank(a.Name) > NameRank(b.Name)

\* C28: the candidates handed to the launch are at most MaxInstanceTypes (60
\* in the source) of the filtered instance types, in the order of the price of
\* their cheapest available offering compatible with the requirements (types
\* without one last), equal prices in descending order of the names; when
\* there are more filtered types than that, the ones kept are the first of
\* that order.
C28_CheapestFirstAtMostMax ==
    probe.kind = "selected" =>
        LET out == probe.instanceTypes
            filtered == probe.filtered
        IN /\ Len(out) <= MaxInstanceTypes
           /\ Len(out) = IF Len(filtered) > MaxInstanceTypes
                         THEN MaxInstanceTypes ELSE Len(filtered)
           /\ Range(out) \subseteq Range(filtered)
           /\ \A i, j \in 1..Len(out) : i < j => orderedBefore(out[i], out[j], probe.machine)
           /\ \A it \in Range(filtered) \ Range(out) :
                 \A i \in 1..Len(out) : orderedBefore(out[i], it, probe.machine)

\* Three filtered types of which two are kept, at the same price, the one
\* with the greater name first, the third being dearer
C28_TieBrokenAndTruncated ==
    /\ probe.kind = "selected"
    /\ Len(probe.filtered) = 3
    /\ Len(probe.instanceTypes) = 2
    /\ probe.instanceTypes[1].Name = "c6g.large"
    /\ probe.instanceTypes[2].Name = "c5.large"
    /\ compatiblePrices(probe.instanceTypes[1], probe.machine) # {}
    /\ leastPrice(compatiblePrices(probe.instanceTypes[1], probe.machine))
         = leastPrice(compatiblePrices(probe.instanceTypes[2], probe.machine))

\* The instance type is of metal size or has an accelerator resource
exotic(it) ==
    \/ it.Size = "metal"
    \/ \E r \in DOMAIN it.Accelerators : it.Accelerators[r] > 0

\* C29: filterExoticInstanceTypes removes every instance type of metal size
\* and every one with a non-zero NVIDIA GPU, AMD GPU, Neuron or Gaudi
\* capacity, and nothing else, when at least one candidate is none of these;
\* it returns the candidates unchanged when every one of them is exotic; it
\* never returns an empty list for a non-empty one.
C29_ExoticRemovedUnlessNothingElse ==
    probe.kind = "filterExotic" =>
        LET in == probe.candidates
            out == probe.generic
        IN /\ (\E it \in Range(in) : ~exotic(it)) =>
                 out = SelectSeq(in, LAMBDA it : ~exotic(it))
           /\ (\A it \in Range(in) : exotic(it)) => out = in
           /\ in # <<>> => out # <<>>

\* Candidates of every exotic kind and two generic ones: the generic ones are
\* what is left
C29_OnlyGenericLeft ==
    /\ probe.kind = "filterExotic"
    /\ Len(probe.candidates) = 7
    /\ Len(probe.generic) = 2

\* The candidates the spot rule is applied to have an available offering of
\* the capacity type in a zone the machine admits
offeredInAdmittedZone(its, m, capacityType) ==
    \E it \in Range(its) : \E o \in Range(it.Offerings) :
        o.Available /\ o.Zone \in m.zones /\ o.CapacityType = capacityType

\* The launch could be of either capacity type
mixedCapacity(its, m) ==
    /\ m.capacityTypes = {CapacityTypeSpot, CapacityTypeOnDemand}
    /\ offeredInAdmittedZone(its, m, CapacityTypeSpot)
    /\ offeredInAdmittedZone(its, m, CapacityTypeOnDemand)

\* The prices of the available on-demand offerings of the candidates
onDemandPrices(its) ==
    {o.Price : o \in {a \in UNION {Range(it.Offerings) : it \in Range(its)} :
                         a.Available /\ a.CapacityType = CapacityTypeOnDemand}}

\* The cheapest available offering of the type is a spot offering priced
\* above 0.72 times the least of the on-demand prices
spotAbove72Percent(it, prices) ==
    /\ Available(it.Offerings) # <<>>
    /\ Cheapest(Available(it.Offerings)).CapacityType = CapacityTypeSpot
    /\ \E q \in prices : 100 * Cheapest(Available(it.Offerings)).Price > 72 * q

\* C30: when the requirements admit both spot and on-demand and the
\* candidates the rule is applied to (those left by the exotic filter) have
\* available offerings of both kinds in admitted zones, filtering leaves no
\* candidate whose cheapest available offering is a spot offering priced
\* above 0.72 times the cheapest available on-demand price among these
\* candidates; when the launch is not such a mixed-capacity launch, the rule
\* removes no candidate.
C30_NoSpotAbove72PercentOfOnDemand ==
    probe.kind = "selected" =>
        IF mixedCapacity(probe.generic, probe.machine)
        THEN \A it \in Range(probe.filtered) :
                 ~spotAbove72Percent(it, onDemandPrices(probe.generic))
        ELSE probe.filtered = probe.generic

\* A mixed-capacity launch in which a spot-cheapest candidate between 0.72
\* times and the whole of the cheapest on-demand price was removed while
\* another candidate was kept
C30_DearSpotRemoved ==
    /\ probe.kind = "selected"
    /\ mixedCapacity(probe.generic, probe.machine)
    /\ probe.filtered # <<>>
    /\ \E it \in Range(probe.generic) \ Range(probe.filtered) :
          /\ spotAbove72Percent(it, onDemandPrices(probe.generic))
          /\ \A q \in onDemandPrices(probe.generic) :
                Cheapest(Available(it.Offerings)).Price <= q

-----------------------------------------------------------------------------
(* Claims about the capacity of the instance types *)

\* The pods capacity by the stated policy: the explicit maxPods; else, for a
\* family of ENI-limited density, usableENIs * (IPv4 addresses per ENI - 1) + 2
\* with usableENIs the ENIs less the reserved ones, not below 0; else 110;
\* not above podsPerCore * vCPUs when podsPerCore > 0 and the family enables it
statedPods(info, flags, maxPods, podsPerCore, reservedENIs) ==
    LET usableENIs == IF info.MaximumNetworkInterfaces > reservedENIs
                      THEN info.MaximumNetworkInterfaces - reservedENIs ELSE 0
        base == IF maxPods # {} THEN CHOOSE n \in maxPods : TRUE
                ELSE IF flags.SupportsENILimitedPodDensity
                     THEN usableENIs * (info.Ipv4AddressesPerInterface - 1) + 2
                     ELSE 110
        perCore == {n * info.DefaultVCpus : n \in {k \in podsPerCore : k > 0 /\ flags.PodsPerCoreEnabled}}
    IN CHOOSE least \in {base} \cup perCore : \A other \in {base} \cup perCore : least <= other

\* C31: the pods capacity of an instance type is the explicit maxPods when
\* set; otherwise, for a family of ENI-limited density,
\* usableENIs * (IPv4 addresses per ENI - 1) + 2 with usableENIs =
\* max(ENIs - reserved ENIs, 0); otherwise 110; and with podsPerCore > 0 in a
\* family that enables it, the minimum of that and podsPerCore * vCPUs.
C31_PodsFollowStatedPolicy ==
    probe.kind = "NewInstanceType" =>
        probe.instanceType.Capacity.pods =
            statedPods(probe.info, probe.flags, probe.maxPods, probe.podsPerCore,
                       probe.reservedENIs)

\* The sizes of the mappings that satisfy the predicate
sizesOf(mappings, Pred(_)) ==
    UNION {mappings[i].VolumeSize : i \in {k \in 1..Len(mappings) : Pred(mappings[k])}}

\* C32: ephemeral storage follows a strict precedence: with instanceStorePolicy
\* RAID0 and an instance store present its total size is used whatever the
\* block-device mappings say; otherwise the size of a mapping with rootVolume
\* true; otherwise, for a Custom family, the size of the last mapping (the
\* default size when it has none); otherwise the size of the mapping for the
\* family's ephemeral device, then the family default, then the system default.
C32_EphemeralStoragePrecedence ==
    probe.kind = "ephemeralStorage" =>
        LET family == probe.amiFamily
            bdms == probe.blockDeviceMappings
            rootSizes == sizesOf(bdms, LAMBDA bdm : bdm.RootVolume)
            deviceSizes == sizesOf(bdms, LAMBDA bdm : bdm.DeviceName \in family.EphemeralBlockDevice)
            familySizes == sizesOf(family.DefaultBlockDeviceMappings,
                                   LAMBDA bdm : bdm.DeviceName \in family.EphemeralBlockDevice)
            systemDefault == {[n |-> 20, unit |-> "Gi"]}
        IN CASE probe.instanceStorePolicy = {"RAID0"} /\ probe.totalSizeInGB # {} ->
                    probe.storage = {[n |-> g, unit |-> "G"] : g \in probe.totalSizeInGB}
             [] OTHER ->
                    CASE rootSizes # {} -> probe.storage = rootSizes
                      [] OTHER ->
                         CASE family.Custom /\ bdms # <<>> ->
                                  probe.storage = IF bdms[Len(bdms)].VolumeSize # {}
                                                  THEN bdms[Len(bdms)].VolumeSize
                                                  ELSE systemDefault
                           [] OTHER ->
                                  CASE deviceSizes # {} -> probe.storage = deviceSizes
                                    [] OTHER ->
                                       CASE familySizes # {} -> probe.storage = familySizes
                                         [] OTHER -> probe.storage = systemDefault

\* RAID0 with an instance store, and a root volume with a size among the
\* mappings: the instance store wins
C32_InstanceStoreOverRootVolume ==
    /\ probe.kind = "ephemeralStorage"
    /\ probe.instanceStorePolicy = {"RAID0"} /\ probe.totalSizeInGB = {900}
    /\ \E i \in 1..Len(probe.blockDeviceMappings) :
          probe.blockDeviceMappings[i].RootVolume /\ probe.blockDeviceMappings[i].VolumeSize # {}
    /\ probe.storage = {[n |-> 900, unit |-> "G"]}

\* The memory.available signals of a map of signals, resolved against the
\* memory capacity: a percentage of 100 disables the signal
memorySignalsOf(signals, memory) ==
    {IF "percent" \in DOMAIN m["memory.available"]
     THEN (IF m["memory.available"].percent = 100 THEN 0
           ELSE Ceil(memory * m["memory.available"].percent, 100))
     ELSE m["memory.available"].quantity :
        m \in {x \in signals : "memory.available" \in DOMAIN x}}

\* The greatest number of a non-empty set
greatest(numbers) == CHOOSE n \in numbers : \A k \in numbers : n >= k

\* C33 as stated: the memory eviction threshold equals the maximum of 100 MiB,
\* the evictionHard memory.available signal and the evictionSoft
\* memory.available signal (percentages resolved against memory capacity),
\* so it is never below 100 MiB.
C33_ThresholdIsMaxWith100Mi ==
    probe.kind = "evictionThreshold" =>
        /\ probe.threshold["memory"] =
               greatest({100 * Mi} \cup memorySignalsOf(probe.evictionHard, probe.memory)
                                   \cup memorySignalsOf(probe.evictionSoft, probe.memory))
        /\ probe.threshold["memory"] >= 100 * Mi

\* C33: the memory eviction threshold is 100 MiB when neither evictionHard
\* nor, in a family with soft eviction enabled, evictionSoft has a
\* memory.available signal; otherwise it is the maximum of these signals
\* (percentages resolved against memory capacity), which may be below 100 MiB.
C33_ThresholdIsMaxOfSignalsElse100Mi ==
    probe.kind = "evictionThreshold" =>
        LET signals == memorySignalsOf(probe.evictionHard, probe.memory) \cup
                       (IF probe.evictionSoftEnabled
                        THEN memorySignalsOf(probe.evictionSoft, probe.memory) ELSE {})
        IN probe.threshold["memory"] = IF signals = {} THEN 100 * Mi ELSE greatest(signals)

\* evictionHard sets memory.available to 50Mi, evictionSoft to 5% (200Mi):
\* the threshold is 50Mi in a family without soft eviction
C33_ThresholdBelow100Mi ==
    /\ probe.kind = "evictionThreshold"
    /\ ~probe.evictionSoftEnabled
    /\ probe.evictionHard = {[s \in {"memory.available"} |-> [quantity |-> 50 * Mi]]}
    /\ probe.evictionSoft = {[s \in {"memory.available"} |-> [percent |-> 5]]}
    /\ probe.threshold["memory"] = 50 * Mi

-----------------------------------------------------------------------------
(* Claims about the results of List in the catalogue *)

\* The result was computed from the data whose fetch set the sequence numbers
\* of the key
computedFromDataOfKey(key, result) ==
    /\ result.instanceTypes = {seqData.types[key[1]]}
    /\ result.instanceTypeOfferings = {seqData.offerings[key[2]]}

\* C34: under any interleaving of concurrent List calls with cache expiry and
\* refresh, a List result stored in the cache, and later served from it, under
\* a key with instance-types sequence number n and offerings sequence number m
\* was computed from the instance-type data and the offerings data whose fetch
\* set those sequence numbers to n and m.
C34_ResultsMatchTheirKey ==
    /\ \A key \in DOMAIN listCache : computedFromDataOfKey(key, listCache[key])
    /\ (catalogCall.op = "List" /\ catalogCall.outcome = "hit") =>
           computedFromDataOfKey(catalogCall.key, catalogCall.value)

\* C40: at every List call the zone set used to build the offerings contains
\* every zone of the instance-type offerings used by that same call, so that
\* after a refresh of the offerings that introduces a zone each instance type
\* offered there gets an offering for that zone.
C40_ZonesCoverOfferings ==
    \A c \in Callers :
        callers[c].pc \in {"key", "SetDefault"} =>
            \A zones \in callers[c].zones :
                zonesOf(callers[c].instanceTypeOfferings) \subseteq zones

-----------------------------------------------------------------------------
(* Claims about the outcome of Create *)

\* C35: if Create returns an error, no instance was launched by that call:
\* every instance id returned by a CreateFleet call made inside Create is
\* returned to the caller as the created instance.
C35_ErrorMeansNothingLaunched ==
    pc = "done" =>
        /\ err # NoErr => id = NoId
        /\ id # NoId => instance.InstanceId = id

\* C36: if the candidate list given to Create contains at least one instance
\* type with an available offering, the list left by filterInstanceTypes is
\* non-empty: the exotic filter and the mixed-capacity spot filter together
\* never eliminate every launchable candidate.
C36_FilterLeavesALaunchableCandidate ==
    probe.kind = "selected" =>
        ((\E it \in Range(probe.candidates) : Available(it.Offerings) # <<>>) =>
            probe.filtered # <<>>)

\* No offering of the candidates of the call yields an override: none is
\* available, of the capacity type of the launch, in a zone the machine admits
\* and in which the node class has a launch subnet
noOverridePossible ==
    \A i \in 1..Len(instanceTypes) : \A of \in Range(instanceTypes[i].Offerings) :
        ~ /\ of.Available
          /\ of.CapacityType = getCapacityType(machine, instanceTypes)
          /\ of.Zone \in machine.zones
          /\ of.Zone \in subnetZones

\* C37: every CreateFleet request issued by launchInstance contains at least
\* one launch template config and each of its configs has at least one
\* override; when no candidate offering yields an override, a launch that got
\* its subnets and launch templates fails with the 'no capacity offerings'
\* error before any CreateFleet call and leaves the unavailable-offerings
\* cache as it was.
C37_RequestsHaveOverrides ==
    [][ /\ pc' = "fleet" =>
              /\ request'.LaunchTemplateConfigs # {}
              /\ \A config \in request'.LaunchTemplateConfigs : Len(config.Overrides) >= 1
        /\ (/\ pc = "launch"
            /\ noOverridePossible
            /\ err' \notin {GettingSubnetsErr, GettingLaunchTemplatesErr}) =>
              /\ err' = NoCapacityOfferingsErr
              /\ id' = NoId
              /\ pc' = "done"
              /\ fleetOutput' = NoOutput
              /\ unavailable' = unavailable
              /\ SeqNum' = SeqNum ]_vars

\* The only launch of a call has failed with the 'no capacity offerings'
\* error without a CreateFleet call, offerings being marked unavailable
C37_NoCapacityOfferingsWithoutCreateFleet ==
    /\ pc = "done"
    /\ err = NoCapacityOfferingsErr
    /\ launches = 1
    /\ fleetOutput = NoOutput
    /\ unavailable # {}

\* C38: launchInstance never returns a nil instance id together with a nil
\* error: when CreateFleet succeeds as a request but returns no instance id,
\* an error is returned even if the error list of the response is empty, and
\* with an empty error list that error is an InsufficientCapacity error.
C38_NoIdMeansError ==
    /\ (launches >= 1 /\ pc \in {"launch", "get", "done"}) => ~(id = NoId /\ err = NoErr)
    /\ (fleetOutput.received /\ fleetOutput.err = NoErr /\ Len(fleetOutput.Instances) = 0) =>
          /\ id = NoId
          /\ err # NoErr
          /\ fleetOutput.Errors = {} => err = InsufficientCapacityError

\* CreateFleet has returned neither an instance nor an error, and
\* launchInstance an InsufficientCapacity error
C38_EmptyResponseIsInsufficientCapacity ==
    /\ pc = "done"
    /\ fleetOutput.received
    /\ fleetOutput.err = NoErr
    /\ fleetOutput.Instances = <<>>
    /\ fleetOutput.Errors = {}
    /\ id = NoId
    /\ err = InsufficientCapacityError

\* C39: instance Delete returns success only when TerminateInstances succeeded;
\* when TerminateInstances fails with not-found, or fails otherwise while the
\* follow-up Get shows that the instance no longer exists, Delete returns a
\* not-found error, and in the remaining failure cases it returns an error
\* that is not a not-found error.
C39_DeleteOutcomes ==
    probe.kind = "deleted" =>
        LET terminated == probe.terminateErr = NoErr
            alreadyTerminated == probe.terminateErr = InstanceNotFoundCode
            gone == /\ probe.described.called
                    /\ \/ probe.described.err = InstanceNotFoundCode
                       \/ probe.described.err = NoErr /\ probe.described.Instances = <<>>
            notFound == \E i \in 1..Len(probe.err) : probe.err[i] = MachineNotFoundError
        IN /\ probe.err = <<>> <=> terminated
           /\ ~terminated => probe.described.called = ~alreadyTerminated
           /\ (alreadyTerminated \/ (~terminated /\ gone)) => notFound
           /\ (~terminated /\ ~alreadyTerminated /\ ~gone) => (probe.err # <<>> /\ ~notFound)

\* TerminateInstances was throttled and the follow-up Get finds no instance:
\* Delete returns the not-found error of Get
C39_GoneAfterFailedTerminate ==
    /\ probe.kind = "deleted"
    /\ probe.terminateErr = RequestLimitExceeded
    /\ probe.described.called
    /\ probe.described.err = NoErr
    /\ probe.described.Instances = <<>>
    /\ probe.err = <<MachineNotFoundError>>

====
